---------------------------- MODULE Spec2Model ----------------------------
(***************************************************************************)
(* State-machine model of fccu-cpp: the FaultQueueSet, the Global and      *)
(* PerFault state machines and the FaultCollector that ties them together. *)
(*                                                                         *)
(* The collector object is the record fc (one field per data member, the   *)
(* member's name kept), the template parameters QueueDepth and QueueLevels *)
(* are fixed at construction, env is what lives outside the collector (the *)
(* steady clock and the static counter of the escalate-once test hook),    *)
(* obs records what the most recent call returned and delivered, and hist  *)
(* is a history variable counting the admitted reports per fault index.    *)
(***************************************************************************)
EXTENDS Integers, Sequences, FiniteSets, TLC

VARIABLES QueueDepth, QueueLevels, fc, env, obs, hist

vars == <<QueueDepth, QueueLevels, fc, env, obs, hist>>

(***************************************************************************)
(* Bounds of the model (the template parameters the model instantiates     *)
(* small, and the number of clock readings explored).                      *)
(***************************************************************************)
MaxFaults == 2
MaxPerFaultHsm == 2
MaxClock == 2
MaxThreshold == 2
MaxOccurrence == 3
MaxRecent == 33
CounterMod == 1

(***************************************************************************)
(* Program constants.                                                      *)
(***************************************************************************)
kRecentRingSize == 16

kCritical == 0
kHigh == 1
kMedium == 2
kLow == 3

kFaultReported == 1
kAllCleared == 2
kCriticalDetected == 3
kShutdownReq == 4
kDegradeRecovered == 5
kDetected == 10
kConfirmed == 11
kRecoveryStart == 12
kRecoveryDone == 13
kClearFault == 14

FaultPriority == {kCritical, kHigh, kMedium, kLow}

HookAction == {"kHandled", "kEscalate", "kDefer", "kShutdown"}

(* The hook functions of the test suite; "nullptr" is no hook. *)
HookFns == {"HandledHook", "DeferHook", "EscalateHook", "ShutdownHook", "EscalateOnceHook"}

RECURSIVE SumTo(_, _)
SumTo(f, n) == IF n < 0 THEN 0 ELSE f[n] + SumTo(f, n - 1)

(***************************************************************************)
(* spsc::Ringbuffer<T, LevelSize>: a bounded FIFO of capacity LevelSize.   *)
(***************************************************************************)
RingSize(q) == Len(q)

RingIsFull(q) == Len(q) >= QueueDepth

\* Push: [ok, q]; fails on a full ring and leaves it unchanged.
RingPush(q, item) ==
  IF RingIsFull(q) THEN [ok |-> FALSE, q |-> q]
  ELSE [ok |-> TRUE, q |-> Append(q, item)]

\* Pop: [ok, q, item]; fails on an empty ring.
RingPop(q) ==
  IF Len(q) = 0 THEN [ok |-> FALSE, q |-> q, item |-> <<>>]
  ELSE [ok |-> TRUE, q |-> Tail(q), item |-> Head(q)]

(***************************************************************************)
(* FaultQueueSet<T, Levels, LevelSize>                                     *)
(***************************************************************************)
Levels == 0 .. (QueueLevels - 1)

kLowThreshold == (QueueDepth * 60) \div 100
kMediumThreshold == (QueueDepth * 80) \div 100
kHighThreshold == (QueueDepth * 99) \div 100

AdmitByPriority_NoLow(level, current_depth) ==
  IF level = 0 THEN TRUE
  ELSE IF level = 1 THEN current_depth < kHighThreshold
  ELSE IF level = 2 THEN current_depth < kMediumThreshold
  ELSE current_depth < kMediumThreshold

AdmitByPriority(level, current_depth) ==
  IF level = 0 THEN TRUE
  ELSE IF level = 1 THEN current_depth < kHighThreshold
  ELSE IF level = 2 THEN current_depth < kMediumThreshold
  ELSE current_depth < kLowThreshold

\* FaultQueueSet::Push: [ok, qs]
QsPush(qs, level, item) ==
  IF level >= QueueLevels THEN [ok |-> FALSE, qs |-> qs]
  ELSE LET r == RingPush(qs[level], item)
       IN [ok |-> r.ok, qs |-> [qs EXCEPT ![level] = r.q]]

\* Variant: no admission control, the entry is pushed whenever there is room.
PushWithAdmission_NoAdmission(qs, level, item) == QsPush(qs, level, item)

\* FaultQueueSet::PushWithAdmission: [ok, qs]
PushWithAdmission(qs, level, item) ==
  IF level >= QueueLevels THEN [ok |-> FALSE, qs |-> qs]
  ELSE IF ~AdmitByPriority(level, RingSize(qs[level])) THEN [ok |-> FALSE, qs |-> qs]
  ELSE LET r == RingPush(qs[level], item)
       IN [ok |-> r.ok, qs |-> [qs EXCEPT ![level] = r.q]]

\* The scan of Pop: the first level from i upward whose ring pops, or
\* QueueLevels when none does.
RECURSIVE PopScan(_, _)
PopScan(qs, i) ==
  IF i >= QueueLevels THEN QueueLevels
  ELSE IF RingPop(qs[i]).ok THEN i
  ELSE PopScan(qs, i + 1)

RECURSIVE PopScanDown(_, _)
PopScanDown(qs, i) ==
  IF i < 0 THEN QueueLevels
  ELSE IF RingPop(qs[i]).ok THEN i
  ELSE PopScanDown(qs, i - 1)

\* Variant: the entry is read and left in its ring.
QsPop_Peek(qs) ==
  LET i == PopScan(qs, 0)
  IN IF i >= QueueLevels THEN [ok |-> FALSE, qs |-> qs, item |-> <<>>, out_level |-> 0]
     ELSE [ok |-> TRUE, qs |-> qs, item |-> RingPop(qs[i]).item, out_level |-> i]

QsPop_LowestFirst(qs) ==
  LET i == PopScanDown(qs, QueueLevels - 1)
  IN IF i >= QueueLevels THEN [ok |-> FALSE, qs |-> qs, item |-> <<>>, out_level |-> 0]
     ELSE LET r == RingPop(qs[i])
          IN [ok |-> TRUE, qs |-> [qs EXCEPT ![i] = r.q], item |-> r.item, out_level |-> i]

\* FaultQueueSet::Pop: [ok, qs, item, out_level]
QsPop(qs) ==
  LET i == PopScan(qs, 0)
  IN IF i >= QueueLevels THEN [ok |-> FALSE, qs |-> qs, item |-> <<>>, out_level |-> 0]
     ELSE LET r == RingPop(qs[i])
          IN [ok |-> TRUE, qs |-> [qs EXCEPT ![i] = r.q], item |-> r.item, out_level |-> i]

QsIsEmpty(qs) == \A i \in Levels : Len(qs[i]) = 0

QsSize(qs, level) == IF level >= QueueLevels THEN 0 ELSE RingSize(qs[level])

RECURSIVE QsSizeUpTo(_, _)
QsSizeUpTo(qs, i) == IF i < 0 THEN 0 ELSE RingSize(qs[i]) + QsSizeUpTo(qs, i - 1)

TotalSize(qs) == QsSizeUpTo(qs, QueueLevels - 1)

(***************************************************************************)
(* GlobalHsm: [state, ctx]                                                 *)
(***************************************************************************)
GlobalHsmContext0 == [active_count |-> 0, critical_count |-> 0, shutdown_requested |-> FALSE]

GlobalHsm0 == [state |-> "Idle", ctx |-> GlobalHsmContext0]

\* Variant: Active has no transition for CriticalDetected.
GlobalDispatch_NoCriticalDetected(g, event_id) ==
  IF g.state = "Idle" /\ event_id = kFaultReported THEN [g EXCEPT !.state = "Active"]
  ELSE IF g.state = "Active" /\ event_id = kAllCleared
    THEN [state |-> "Idle",
          ctx |-> [g.ctx EXCEPT !.active_count = 0, !.critical_count = 0]]
  ELSE IF g.state = "Active" /\ event_id = kShutdownReq
    THEN [state |-> "Shutdown", ctx |-> [g.ctx EXCEPT !.shutdown_requested = TRUE]]
  ELSE IF g.state = "Degraded" /\ event_id = kDegradeRecovered THEN [g EXCEPT !.state = "Active"]
  ELSE IF g.state = "Degraded" /\ event_id = kShutdownReq
    THEN [state |-> "Shutdown", ctx |-> [g.ctx EXCEPT !.shutdown_requested = TRUE]]
  ELSE g

\* Variant: Degraded takes AllCleared to Idle and Shutdown restarts on
\* FaultReported.
GlobalDispatch_ExtraTransitions(g, event_id) ==
  IF g.state = "Idle" /\ event_id = kFaultReported THEN [g EXCEPT !.state = "Active"]
  ELSE IF g.state \in {"Active", "Degraded"} /\ event_id = kAllCleared
    THEN [state |-> "Idle",
          ctx |-> [g.ctx EXCEPT !.active_count = 0, !.critical_count = 0]]
  ELSE IF g.state = "Active" /\ event_id = kCriticalDetected THEN [g EXCEPT !.state = "Degraded"]
  ELSE IF g.state = "Active" /\ event_id = kShutdownReq
    THEN [state |-> "Shutdown", ctx |-> [g.ctx EXCEPT !.shutdown_requested = TRUE]]
  ELSE IF g.state = "Degraded" /\ event_id = kDegradeRecovered THEN [g EXCEPT !.state = "Active"]
  ELSE IF g.state = "Degraded" /\ event_id = kShutdownReq
    THEN [state |-> "Shutdown", ctx |-> [g.ctx EXCEPT !.shutdown_requested = TRUE]]
  ELSE IF g.state = "Shutdown" /\ event_id = kFaultReported THEN [g EXCEPT !.state = "Active"]
  ELSE g

\* GlobalHsm::Dispatch with the transitions of GlobalHsm::Setup; an event
\* with no transition from the current state is ignored.
GlobalDispatch(g, event_id) ==
  IF g.state = "Idle" /\ event_id = kFaultReported THEN [g EXCEPT !.state = "Active"]
  ELSE IF g.state = "Active" /\ event_id = kAllCleared
    THEN [state |-> "Idle",
          ctx |-> [g.ctx EXCEPT !.active_count = 0, !.critical_count = 0]]
  ELSE IF g.state = "Active" /\ event_id = kCriticalDetected THEN [g EXCEPT !.state = "Degraded"]
  ELSE IF g.state = "Active" /\ event_id = kShutdownReq
    THEN [state |-> "Shutdown", ctx |-> [g.ctx EXCEPT !.shutdown_requested = TRUE]]
  ELSE IF g.state = "Degraded" /\ event_id = kDegradeRecovered THEN [g EXCEPT !.state = "Active"]
  ELSE IF g.state = "Degraded" /\ event_id = kShutdownReq
    THEN [state |-> "Shutdown", ctx |-> [g.ctx EXCEPT !.shutdown_requested = TRUE]]
  ELSE g

GlobalReset(g) == GlobalHsm0

(***************************************************************************)
(* PerFaultHsm: [state, ctx]                                               *)
(***************************************************************************)
PerFaultContext0 == [fault_index |-> 0, occurrence_count |-> 0, err_threshold |-> 1]

PerFaultHsm0 == [state |-> "Dormant", ctx |-> PerFaultContext0]

\* Variant: Confirmed is taken without its guard.
PerFaultDispatch_NoGuard(h, event_id) ==
  IF h.state = "Dormant" /\ event_id = kDetected
    THEN [state |-> "Detected", ctx |-> [h.ctx EXCEPT !.occurrence_count = 1]]
  ELSE IF h.state = "Detected" /\ event_id = kConfirmed THEN [h EXCEPT !.state = "Active"]
  ELSE IF h.state = "Detected" /\ event_id = kDetected
    THEN [h EXCEPT !.ctx.occurrence_count = @ + 1]
  ELSE IF h.state = "Detected" /\ event_id = kClearFault THEN [h EXCEPT !.state = "Cleared"]
  ELSE IF h.state = "Active" /\ event_id = kRecoveryStart THEN [h EXCEPT !.state = "Recovering"]
  ELSE IF h.state = "Active" /\ event_id = kClearFault THEN [h EXCEPT !.state = "Cleared"]
  ELSE IF h.state = "Recovering" /\ event_id = kRecoveryDone THEN [h EXCEPT !.state = "Cleared"]
  ELSE IF h.state = "Cleared" /\ event_id = kClearFault
    THEN [state |-> "Dormant", ctx |-> [h.ctx EXCEPT !.occurrence_count = 0]]
  ELSE h

\* PerFaultHsm::Dispatch with the transitions of PerFaultHsm::Setup.
PerFaultDispatch(h, event_id) ==
  IF h.state = "Dormant" /\ event_id = kDetected
    THEN [state |-> "Detected", ctx |-> [h.ctx EXCEPT !.occurrence_count = 1]]
  ELSE IF h.state = "Detected" /\ event_id = kConfirmed
    THEN IF h.ctx.occurrence_count >= h.ctx.err_threshold
         THEN [h EXCEPT !.state = "Active"] ELSE h
  ELSE IF h.state = "Detected" /\ event_id = kDetected
    THEN [h EXCEPT !.ctx.occurrence_count = @ + 1]
  ELSE IF h.state = "Detected" /\ event_id = kClearFault THEN [h EXCEPT !.state = "Cleared"]
  ELSE IF h.state = "Active" /\ event_id = kRecoveryStart THEN [h EXCEPT !.state = "Recovering"]
  ELSE IF h.state = "Active" /\ event_id = kClearFault THEN [h EXCEPT !.state = "Cleared"]
  ELSE IF h.state = "Recovering" /\ event_id = kRecoveryDone THEN [h EXCEPT !.state = "Cleared"]
  ELSE IF h.state = "Cleared" /\ event_id = kClearFault
    THEN [state |-> "Dormant", ctx |-> [h.ctx EXCEPT !.occurrence_count = 0]]
  ELSE h

\* PerFaultHsm::Bind
PerFaultBind(h, fault_index, threshold) ==
  [state |-> "Dormant",
   ctx |-> [fault_index |-> fault_index, occurrence_count |-> 0, err_threshold |-> threshold]]

\* PerFaultHsm::Reset
PerFaultReset(h) == [state |-> "Dormant", ctx |-> [h.ctx EXCEPT !.occurrence_count = 0]]

(***************************************************************************)
(* FaultCollector<MaxFaults, QueueDepth, QueueLevels, MaxPerFaultHsm>      *)
(***************************************************************************)
FaultIndexes == 0 .. (MaxFaults - 1)

HsmSlots == 0 .. (MaxPerFaultHsm - 1)

FaultTableEntry0 ==
  [fault_code |-> 0, attr |-> 0, err_threshold |-> 1, registered |-> FALSE,
   occurrence_count |-> 0, hook_fn |-> "nullptr"]

RecentFaultInfo0 == [fault_index |-> 0, detail |-> 0, priority |-> kMedium, timestamp_us |-> 0]

\* The collector as constructed with QueueLevels = levels.
FaultCollector0(levels) ==
  [queue_set_ |-> [l \in 0 .. (levels - 1) |-> <<>>],
   table_ |-> [i \in FaultIndexes |-> FaultTableEntry0],
   active_bitmap_ |-> {},
   stats_total_reported_ |-> 0,
   stats_total_processed_ |-> 0,
   stats_total_dropped_ |-> 0,
   stats_reported_ |-> [k \in 0 .. 3 |-> 0],
   stats_dropped_ |-> [k \in 0 .. 3 |-> 0],
   default_hook_fn_ |-> "nullptr",
   overflow_fn_ |-> FALSE,
   shutdown_fn_ |-> FALSE,
   bus_notify_fn_ |-> FALSE,
   global_hsm_ |-> GlobalHsm0,
   per_fault_hsms_ |-> [s \in HsmSlots |-> PerFaultHsm0],
   per_fault_hsm_map_ |-> [s \in HsmSlots |-> 0],
   per_fault_hsm_count_ |-> 0,
   recent_ring_ |-> [k \in 0 .. (kRecentRingSize - 1) |-> RecentFaultInfo0],
   recent_head_ |-> 0,
   recent_count_ |-> 0,
   shutdown_requested_ |-> FALSE]

\* Outside the collector: the steady clock (read count) and the static
\* call counter of the escalate-once hook.
\* Where each thread of a concurrent run stands, with its locals.
Producer0 == [pc |-> "idle", fault_index |-> 0, priority |-> 0]

Consumer0 == [pc |-> "idle", total |-> 0]

Reader0 == [pc |-> "idle", active_count |-> 0, total_reported |-> 0]

\* wrap: the modulus the counters are kept to (0: their full width, which no
\* run of the model reaches).
Env0 ==
  [clock |-> 0, call_count |-> 0, wrap |-> 0,
   producer |-> Producer0, consumer |-> Consumer0, reader |-> Reader0]

\* What the most recent call returned and caused.
Obs0 ==
  [op |-> "construct", index |-> 0, err |-> "none", count |-> 0,
   events |-> <<>>, pops |-> <<>>, overflow_calls |-> 0, shutdown_calls |-> 0,
   ok |-> FALSE, fill |-> 0, unchanged |-> TRUE,
   priority |-> 0, detail |-> 0, before |-> GlobalHsm0,
   max_count |-> 0, visited |-> <<>>, thread |-> "none"]

\* hist.admitted[i]: the reports for i admitted since i was last cleared (or
\* since construction); hist.clean[i]: no entry for i was queued when i was
\* last cleared; hist.processed[i]: the entries for i processed since i was
\* last cleared; hist.requeued: the escalated copies pushed so far.
Hist0 ==
  [admitted |-> [i \in FaultIndexes |-> 0],
   clean |-> [i \in FaultIndexes |-> TRUE],
   processed |-> [i \in FaultIndexes |-> 0],
   requeued |-> 0]

ObsOf(op, index) == [Obs0 EXCEPT !.op = op, !.index = index]

\* detail::SteadyNowUs: the value read; every reading advances the clock.
SteadyNowUs(w) == w.env.clock + 1

Tick(w) == [w EXCEPT !.env.clock = @ + 1]

IsFaultActive(c, fault_index) ==
  IF fault_index >= MaxFaults THEN FALSE ELSE fault_index \in c.active_bitmap_

ActiveFaultCount(c) == Cardinality(c.active_bitmap_)

SetFaultActive(c, fault_index) == [c EXCEPT !.active_bitmap_ = @ \cup {fault_index}]

ClearFaultActive_Keep(c, fault_index) == c

ClearFaultActive(c, fault_index) == [c EXCEPT !.active_bitmap_ = @ \ {fault_index}]

\* The slot DispatchPerFaultEvent finds: the first bound slot mapped to the
\* index, or MaxPerFaultHsm when there is none.
RECURSIVE FindSlot(_, _, _)
FindSlot(c, fault_index, i) ==
  IF i >= c.per_fault_hsm_count_ THEN MaxPerFaultHsm
  ELSE IF c.per_fault_hsm_map_[i] = fault_index THEN i
  ELSE FindSlot(c, fault_index, i + 1)

DispatchPerFaultEvent(c, fault_index, event_id) ==
  LET i == FindSlot(c, fault_index, 0)
  IN IF i >= MaxPerFaultHsm THEN c
     ELSE [c EXCEPT !.per_fault_hsms_[i] = PerFaultDispatch(@, event_id)]

\* The state of the PerFault HSM that receives the events of the index
\* ("none" when no slot is bound to it).
BoundHsmState(c, fault_index) ==
  LET i == FindSlot(c, fault_index, 0)
  IN IF i >= MaxPerFaultHsm THEN "none" ELSE c.per_fault_hsms_[i].state

AddToRecentRing(c, evt_data) ==
  [c EXCEPT
     !.recent_ring_[c.recent_head_] =
        [fault_index |-> evt_data.fault_index, detail |-> evt_data.detail,
         priority |-> evt_data.priority, timestamp_us |-> evt_data.timestamp_us],
     !.recent_head_ = (c.recent_head_ + 1) % kRecentRingSize,
     !.recent_count_ = IF c.recent_count_ < kRecentRingSize THEN @ + 1 ELSE @]

(***************************************************************************)
(* The operations, as functions of the world w = [fc, env, obs].           *)
(***************************************************************************)
World == [fc |-> fc, env |-> env, obs |-> obs]

\* Variant: an index already registered is registered again.
RegisterFaultOp_Overwrite(w, fault_index, fault_code, attr, err_threshold) ==
  LET w0 == [w EXCEPT !.obs = ObsOf("RegisterFault", fault_index)]
  IN IF fault_index >= MaxFaults THEN [w0 EXCEPT !.obs.err = "kInvalidIndex"]
     ELSE [w0 EXCEPT
             !.fc.table_[fault_index].fault_code = fault_code,
             !.fc.table_[fault_index].attr = attr,
             !.fc.table_[fault_index].err_threshold = err_threshold,
             !.fc.table_[fault_index].registered = TRUE,
             !.obs.err = "kOk"]

\* FaultCollector::RegisterFault
RegisterFaultOp(w, fault_index, fault_code, attr, err_threshold) ==
  LET w0 == [w EXCEPT !.obs = ObsOf("RegisterFault", fault_index)]
  IN IF fault_index >= MaxFaults THEN [w0 EXCEPT !.obs.err = "kInvalidIndex"]
     ELSE IF w.fc.table_[fault_index].registered
       THEN [w0 EXCEPT !.obs.err = "kAlreadyRegistered"]
     ELSE [w0 EXCEPT
             !.fc.table_[fault_index].fault_code = fault_code,
             !.fc.table_[fault_index].attr = attr,
             !.fc.table_[fault_index].err_threshold = err_threshold,
             !.fc.table_[fault_index].registered = TRUE,
             !.obs.err = "kOk"]

\* FaultCollector::RegisterHook
RegisterHookOp(w, fault_index, fn) ==
  LET w0 == [w EXCEPT !.obs = ObsOf("RegisterHook", fault_index)]
  IN IF fault_index >= MaxFaults THEN [w0 EXCEPT !.obs.err = "kInvalidIndex"]
     ELSE IF ~w.fc.table_[fault_index].registered
       THEN [w0 EXCEPT !.obs.err = "kNotRegistered"]
     ELSE [w0 EXCEPT !.fc.table_[fault_index].hook_fn = fn, !.obs.err = "kOk"]

\* FaultCollector::SetDefaultHook
SetDefaultHookOp(w, fn) ==
  [w EXCEPT !.fc.default_hook_fn_ = fn, !.obs = ObsOf("SetDefaultHook", 0)]

\* FaultCollector::SetOverflowCallback (TRUE: a callback is set)
SetOverflowCallbackOp(w, fn) ==
  [w EXCEPT !.fc.overflow_fn_ = fn, !.obs = ObsOf("SetOverflowCallback", 0)]

\* FaultCollector::SetShutdownCallback
SetShutdownCallbackOp(w, fn) ==
  [w EXCEPT !.fc.shutdown_fn_ = fn, !.obs = ObsOf("SetShutdownCallback", 0)]

\* FaultCollector::SetBusNotifier
SetBusNotifierOp(w, fn) ==
  [w EXCEPT !.fc.bus_notify_fn_ = fn, !.obs = ObsOf("SetBusNotifier", 0)]

\* FaultCollector::BindFaultHsm
BindFaultHsmOp(w, fault_index, threshold) ==
  LET w0 == [w EXCEPT !.obs = ObsOf("BindFaultHsm", fault_index)]
      slot == w.fc.per_fault_hsm_count_
  IN IF fault_index >= MaxFaults THEN [w0 EXCEPT !.obs.err = "kInvalidIndex"]
     ELSE IF w.fc.per_fault_hsm_count_ >= MaxPerFaultHsm
       THEN [w0 EXCEPT !.obs.err = "kHsmSlotFull"]
     ELSE [w0 EXCEPT
             !.fc.per_fault_hsm_count_ = @ + 1,
             !.fc.per_fault_hsm_map_[slot] = fault_index,
             !.fc.per_fault_hsms_[slot] = PerFaultBind(@, fault_index, threshold),
             !.obs.err = "kOk"]

\* The queue level of a report: the priority, clamped to the last level.
LevelOf(priority) == IF priority >= QueueLevels THEN QueueLevels - 1 ELSE priority

\* Variant: the entry does not carry the detail.
NewFaultEntry_NoDetail(fault_index, detail, priority, now) ==
  [fault_index |-> fault_index, priority |-> priority, detail |-> 0, timestamp_us |-> now]

\* The FaultEntry that ReportFault fills in.
NewFaultEntry(fault_index, detail, priority, now) ==
  [fault_index |-> fault_index, priority |-> priority, detail |-> detail, timestamp_us |-> now]

\* Variant: the registered flag is not looked at.
ReportFaultCheck_NoRegistered(c, fault_index) ==
  IF fault_index >= MaxFaults THEN "kInvalidIndex" ELSE "kOk"

\* The validation at the head of ReportFault.
ReportFaultCheck(c, fault_index) ==
  IF fault_index >= MaxFaults THEN "kInvalidIndex"
  ELSE IF ~c.table_[fault_index].registered THEN "kNotRegistered"
  ELSE "kOk"

\* ReportFault up to the push: the checks, the entry, PushWithAdmission and
\* the rejected path.  obs.err stays "none" when the entry was pushed.
ReportFaultPush(w, fault_index, detail, priority) ==
  LET w0 == [w EXCEPT !.obs = [ObsOf("ReportFault", fault_index) EXCEPT
                                 !.priority = priority, !.detail = detail]]
  IN IF ReportFaultCheck(w.fc, fault_index) # "kOk"
     THEN [w0 EXCEPT !.obs.err = ReportFaultCheck(w.fc, fault_index)]
     ELSE
       LET level == LevelOf(priority)
           entry == NewFaultEntry(fault_index, detail, priority, SteadyNowUs(w0))
           w1 == Tick(w0)
           r == PushWithAdmission(w1.fc.queue_set_, level, entry)
       IN IF ~r.ok
          THEN [w1 EXCEPT
                  !.fc.stats_total_dropped_ = @ + 1,
                  !.fc.stats_dropped_ =
                     IF level < 4 THEN [@ EXCEPT ![level] = @ + 1] ELSE @,
                  !.obs.overflow_calls = IF w1.fc.overflow_fn_ THEN @ + 1 ELSE @,
                  !.obs.err = "kQueueFull"]
          ELSE [w1 EXCEPT !.fc.queue_set_ = r.qs]

\* ReportFault after the push: the active bit.
ReportFaultSetActive(w, fault_index) ==
  [w EXCEPT !.fc = SetFaultActive(@, fault_index)]

\* Variant: the total is left out.
ReportFaultCount_NoTotal(w, level) ==
  [w EXCEPT
     !.fc.stats_reported_ = IF level < 4 THEN [@ EXCEPT ![level] = @ + 1] ELSE @]

\* ReportFault after the active bit: the reported counters.
ReportFaultCount(w, level) ==
  [w EXCEPT
     !.fc.stats_total_reported_ = @ + 1,
     !.fc.stats_reported_ = IF level < 4 THEN [@ EXCEPT ![level] = @ + 1] ELSE @]

\* ReportFault after the counters: both state machines and the return.
ReportFaultNotify(w, fault_index, priority) ==
  LET c3 == DispatchPerFaultEvent(w.fc, fault_index, kDetected)
      c4 == IF c3.global_hsm_.state = "Idle"
            THEN [c3 EXCEPT !.global_hsm_ = GlobalDispatch(@, kFaultReported)]
            ELSE c3
      c5 == IF priority = kCritical /\ c4.global_hsm_.state # "Degraded"
            THEN [c4 EXCEPT
                    !.global_hsm_ =
                       [GlobalDispatch(@, kCriticalDetected)
                          EXCEPT !.ctx.critical_count = @ + 1]]
            ELSE c4
  IN [w EXCEPT !.fc = c5, !.obs.err = "kOk"]

\* FaultCollector::ReportFault
ReportFaultOp(w, fault_index, detail, priority) ==
  LET a == ReportFaultPush(w, fault_index, detail, priority)
  IN IF a.obs.err # "none" THEN a
     ELSE ReportFaultNotify(
            ReportFaultCount(ReportFaultSetActive(a, fault_index), LevelOf(priority)),
            fault_index, priority)

\* What a hook function returns; call_count is the escalate-once hook's
\* static counter after its increment.
HookReturn(fn, call_count) ==
  CASE fn = "HandledHook" -> "kHandled"
    [] fn = "DeferHook" -> "kDefer"
    [] fn = "EscalateHook" -> "kEscalate"
    [] fn = "ShutdownHook" -> "kShutdown"
    [] fn = "EscalateOnceHook" -> IF call_count = 1 THEN "kEscalate" ELSE "kHandled"

\* The occurrence counter's fetch_add(1) of ProcessEntry.
AddOccurrence_Store(c, idx) == [c EXCEPT !.table_[idx].occurrence_count = 1]

AddOccurrence(c, idx) == [c EXCEPT !.table_[idx].occurrence_count = @ + 1]

\* Without the early return the level pri - 1 wraps to 255 and the push fails.
HandleEscalation_NoCriticalCheck(w, original) ==
  LET pri == original.priority
      level == IF pri = 0 THEN 255 ELSE pri - 1
      escalated == [original EXCEPT !.priority = level, !.timestamp_us = SteadyNowUs(w)]
      w1 == Tick(w)
      r == QsPush(w1.fc.queue_set_, level, escalated)
  IN IF ~r.ok
     THEN [w |-> [w1 EXCEPT !.fc.stats_total_dropped_ = @ + 1], requeue |-> "failed"]
     ELSE [w |-> [w1 EXCEPT !.fc.queue_set_ = r.qs], requeue |-> "pushed"]

\* Variant: a failed push is not counted.
HandleEscalation_NoDrop(w, original) ==
  LET pri == original.priority
  IN IF pri = 0 THEN [w |-> w, requeue |-> "none"]
     ELSE
       LET escalated == [original EXCEPT !.priority = pri - 1,
                                         !.timestamp_us = SteadyNowUs(w)]
           w1 == Tick(w)
           r == QsPush(w1.fc.queue_set_, pri - 1, escalated)
       IN IF ~r.ok
          THEN [w |-> w1, requeue |-> "failed"]
          ELSE [w |-> [w1 EXCEPT !.fc.queue_set_ = r.qs], requeue |-> "pushed"]

\* FaultCollector::HandleEscalation: [w, requeue], requeue being "none"
\* (already critical), "pushed" or "failed".
HandleEscalation(w, original) ==
  LET pri == original.priority
  IN IF pri = 0 THEN [w |-> w, requeue |-> "none"]
     ELSE
       LET escalated == [original EXCEPT !.priority = pri - 1,
                                         !.timestamp_us = SteadyNowUs(w)]
           w1 == Tick(w)
           r == QsPush(w1.fc.queue_set_, pri - 1, escalated)
       IN IF ~r.ok
          THEN [w |-> [w1 EXCEPT !.fc.stats_total_dropped_ = @ + 1], requeue |-> "failed"]
          ELSE [w |-> [w1 EXCEPT !.fc.queue_set_ = r.qs], requeue |-> "pushed"]

\* Variant: the default hook is preferred to the index's own hook.
ActionSource_DefaultFirst(hook_fn, default_hook_fn) ==
  IF default_hook_fn # "nullptr" THEN "default"
  ELSE IF hook_fn # "nullptr" THEN "hook"
  ELSE "none"

\* Which function decides the action of an entry: the hook of its index,
\* the default hook, or none (the action is then kHandled).
ActionSource(hook_fn, default_hook_fn) ==
  IF hook_fn # "nullptr" THEN "hook"
  ELSE IF default_hook_fn # "nullptr" THEN "default"
  ELSE "none"

\* FaultCollector::ProcessEntry
ProcessEntry(w, entry) ==
  LET idx == entry.fault_index
  IN IF idx >= MaxFaults THEN w
     ELSE
       LET tbl == w.fc.table_[idx]
           prev_count == tbl.occurrence_count
           evt_data == [fault_index |-> idx, priority |-> entry.priority,
                        fault_code |-> tbl.fault_code, detail |-> entry.detail,
                        timestamp_us |-> entry.timestamp_us,
                        occurrence_count |-> AddOccurrence(w.fc, idx).table_[idx].occurrence_count,
                        is_first |-> (prev_count = 0)]
           c1 == AddToRecentRing(AddOccurrence(w.fc, idx), evt_data)
           bus == c1.bus_notify_fn_
           c2 == IF evt_data.occurrence_count >= tbl.err_threshold
                 THEN DispatchPerFaultEvent(c1, idx, kConfirmed) ELSE c1
           source == ActionSource(tbl.hook_fn, c2.default_hook_fn_)
           fn == IF source = "hook" THEN tbl.hook_fn
                 ELSE IF source = "default" THEN c2.default_hook_fn_ ELSE "nullptr"
           e1 == IF fn = "EscalateOnceHook"
                 THEN [w.env EXCEPT !.call_count = @ + 1] ELSE w.env
           action == IF source = "none" THEN "kHandled" ELSE HookReturn(fn, e1.call_count)
           w2 == [w EXCEPT !.fc = c2, !.env = e1]
           handled == LET h1 == ClearFaultActive(c2, idx)
                          h2 == DispatchPerFaultEvent(h1, idx, kClearFault)
                      IN IF ActiveFaultCount(h2) = 0
                         THEN [h2 EXCEPT !.global_hsm_ = GlobalDispatch(@, kAllCleared)]
                         ELSE h2
           esc == HandleEscalation(w2, entry)
           w3 == CASE action = "kHandled" -> [w2 EXCEPT !.fc = handled]
                   [] action = "kEscalate" -> esc.w
                   [] action = "kDefer" -> w2
                   [] action = "kShutdown" ->
                        [w2 EXCEPT
                           !.fc.shutdown_requested_ = TRUE,
                           !.fc.global_hsm_ = GlobalDispatch(@, kShutdownReq),
                           !.obs.shutdown_calls = IF c2.shutdown_fn_ THEN @ + 1 ELSE @]
           w4 == [w3 EXCEPT !.fc.stats_total_processed_ = @ + 1]
           seen == [evt |-> evt_data, action |-> action, source |-> source, bus |-> bus,
                    requeue |-> IF action = "kEscalate" THEN esc.requeue ELSE "none",
                    active_before |-> IsFaultActive(w.fc, idx),
                    active_after |-> IsFaultActive(w4.fc, idx),
                    size_before |-> TotalSize(w.fc.queue_set_),
                    size_after |-> TotalSize(w4.fc.queue_set_),
                    dropped_before |-> w.fc.stats_total_dropped_,
                    dropped_after |-> w4.fc.stats_total_dropped_,
                    processed_before |-> w.fc.stats_total_processed_,
                    processed_after |-> w4.fc.stats_total_processed_,
                    shutdown_fn_calls |-> w4.obs.shutdown_calls - w.obs.shutdown_calls,
                    shutdown_before |-> w.fc.shutdown_requested_,
                    count_after |-> ActiveFaultCount(w4.fc),
                    global_after |-> w4.fc.global_hsm_.state,
                    hsm_after |-> BoundHsmState(w4.fc, idx),
                    queue_before |-> w.fc.queue_set_,
                    queue_after |-> w4.fc.queue_set_,
                    calls |-> (IF bus THEN <<"bus_notify_fn">> ELSE <<>>)
                              \o (IF source = "hook" THEN <<"hook_fn">>
                                  ELSE IF source = "default" THEN <<"default_hook_fn">>
                                  ELSE <<>>)
                              \o (IF action = "kShutdown" /\ c2.shutdown_fn_
                                  THEN <<"shutdown_fn">> ELSE <<>>)]
       IN [w4 EXCEPT !.obs.events = Append(@, seen)]

\* Variant: the loop body runs at most once.
ProcessFaultsLoop_Once(w, total) ==
  LET p == QsPop(w.fc.queue_set_)
  IN IF ~p.ok THEN [w EXCEPT !.obs.count = total]
     ELSE
       LET popped == [level |-> p.out_level,
                      nonempty |-> {l \in Levels : Len(w.fc.queue_set_[l]) > 0},
                      timestamp_us |-> p.item.timestamp_us]
           w1 == [w EXCEPT !.fc.queue_set_ = p.qs, !.obs.pops = Append(@, popped)]
       IN [ProcessEntry(w1, p.item) EXCEPT !.obs.count = total + 1]

\* The drain loop of ProcessFaults: pop, process, count.
RECURSIVE ProcessFaultsLoop(_, _)
ProcessFaultsLoop(w, total) ==
  LET p == QsPop(w.fc.queue_set_)
  IN IF ~p.ok THEN [w EXCEPT !.obs.count = total]
     ELSE
       LET popped == [level |-> p.out_level,
                      nonempty |-> {l \in Levels : Len(w.fc.queue_set_[l]) > 0},
                      timestamp_us |-> p.item.timestamp_us]
           w1 == [w EXCEPT !.fc.queue_set_ = p.qs, !.obs.pops = Append(@, popped)]
       IN ProcessFaultsLoop(ProcessEntry(w1, p.item), total + 1)

ProcessFaultsOp_NoShutdownCheck(w) ==
  ProcessFaultsLoop([w EXCEPT !.obs = ObsOf("ProcessFaults", 0)], 0)

\* FaultCollector::ProcessFaults
ProcessFaultsOp(w) ==
  LET w0 == [w EXCEPT !.obs = ObsOf("ProcessFaults", 0)]
  IN IF w.fc.shutdown_requested_ THEN [w0 EXCEPT !.obs.count = 0]
     ELSE ProcessFaultsLoop(w0, 0)

\* Variant: the Global HSM is not told that the last fault was cleared.
ClearFaultOp_NoAllCleared(w, fault_index) ==
  LET w0 == [w EXCEPT !.obs = ObsOf("ClearFault", fault_index)]
  IN IF fault_index >= MaxFaults THEN w0
     ELSE
       LET c1 == ClearFaultActive(w.fc, fault_index)
           c2 == [c1 EXCEPT !.table_[fault_index].occurrence_count = 0]
           c3 == DispatchPerFaultEvent(c2, fault_index, kClearFault)
       IN [w0 EXCEPT !.fc = c3]

\* Variant: the occurrence counter survives the clear.
ClearFaultOp_KeepCount(w, fault_index) ==
  LET w0 == [w EXCEPT !.obs = ObsOf("ClearFault", fault_index)]
  IN IF fault_index >= MaxFaults THEN w0
     ELSE
       LET c1 == ClearFaultActive(w.fc, fault_index)
           c3 == DispatchPerFaultEvent(c1, fault_index, kClearFault)
           c4 == IF ActiveFaultCount(c3) = 0
                 THEN [c3 EXCEPT !.global_hsm_ = GlobalDispatch(@, kAllCleared)]
                 ELSE c3
       IN [w0 EXCEPT !.fc = c4]

\* FaultCollector::ClearFault
ClearFaultOp(w, fault_index) ==
  LET w0 == [w EXCEPT !.obs = ObsOf("ClearFault", fault_index)]
  IN IF fault_index >= MaxFaults THEN w0
     ELSE
       LET c1 == ClearFaultActive(w.fc, fault_index)
           c2 == [c1 EXCEPT !.table_[fault_index].occurrence_count = 0]
           c3 == DispatchPerFaultEvent(c2, fault_index, kClearFault)
           c4 == IF ActiveFaultCount(c3) = 0
                 THEN [c3 EXCEPT !.global_hsm_ = GlobalDispatch(@, kAllCleared)]
                 ELSE c3
       IN [w0 EXCEPT !.fc = c4]

\* Variant: clearing everything also reports the recovery from Degraded.
ClearAllFaultsOp_Recover(w) ==
  LET c == w.fc
      c1 == [c EXCEPT
               !.active_bitmap_ = {},
               !.table_ = [i \in FaultIndexes |-> [c.table_[i] EXCEPT !.occurrence_count = 0]],
               !.per_fault_hsms_ =
                  [s \in HsmSlots |->
                     IF s < c.per_fault_hsm_count_ THEN PerFaultReset(c.per_fault_hsms_[s])
                     ELSE c.per_fault_hsms_[s]],
               !.global_hsm_ = GlobalDispatch(GlobalDispatch(@, kDegradeRecovered), kAllCleared)]
  IN [w EXCEPT !.fc = c1, !.obs = ObsOf("ClearAllFaults", 0)]

\* FaultCollector::ClearAllFaults
ClearAllFaultsOp(w) ==
  LET c == w.fc
      c1 == [c EXCEPT
               !.active_bitmap_ = {},
               !.table_ = [i \in FaultIndexes |-> [c.table_[i] EXCEPT !.occurrence_count = 0]],
               !.per_fault_hsms_ =
                  [s \in HsmSlots |->
                     IF s < c.per_fault_hsm_count_ THEN PerFaultReset(c.per_fault_hsms_[s])
                     ELSE c.per_fault_hsms_[s]],
               !.global_hsm_ = GlobalDispatch(@, kAllCleared)]
  IN [w EXCEPT !.fc = c1, !.obs = ObsOf("ClearAllFaults", 0)]

\* FaultCollector::ResetStatistics
ResetStatisticsOp(w) ==
  [w EXCEPT
     !.fc.stats_total_reported_ = 0,
     !.fc.stats_total_processed_ = 0,
     !.fc.stats_total_dropped_ = 0,
     !.fc.stats_reported_ = [k \in 0 .. 3 |-> 0],
     !.fc.stats_dropped_ = [k \in 0 .. 3 |-> 0],
     !.obs = ObsOf("ResetStatistics", 0)]

\* Variant: no critical band, 80 percent is already full.
GetBackpressureLevelOp_NoCritical(w) ==
  LET total == TotalSize(w.fc.queue_set_)
      cap == QueueDepth * QueueLevels
      pct == (total * 100) \div cap
  IN [w EXCEPT !.obs = [ObsOf("GetBackpressureLevel", 0) EXCEPT
        !.fill = total,
        !.err = IF cap = 0 THEN "kFull"
                ELSE IF pct >= 80 THEN "kFull"
                ELSE IF pct >= 60 THEN "kWarning"
                ELSE "kNormal"]]

\* FaultCollector::GetBackpressureLevel; obs.err is the level returned.
GetBackpressureLevelOp(w) ==
  LET total == TotalSize(w.fc.queue_set_)
      cap == QueueDepth * QueueLevels
      pct == (total * 100) \div cap
  IN [w EXCEPT !.obs = [ObsOf("GetBackpressureLevel", 0) EXCEPT
        !.fill = total,
        !.err = IF cap = 0 THEN "kFull"
                ELSE IF pct >= 95 THEN "kFull"
                ELSE IF pct >= 80 THEN "kCritical"
                ELSE IF pct >= 60 THEN "kWarning"
                ELSE "kNormal"]]

\* Variant: the ring is walked from its oldest entry.
ForEachRecentOp_OldestFirst(w, max_count) ==
  LET c == w.fc
      count == IF c.recent_count_ < max_count THEN c.recent_count_ ELSE max_count
  IN [w EXCEPT !.obs = [ObsOf("ForEachRecent", 0) EXCEPT
        !.max_count = max_count,
        !.visited = [i \in 1 .. count |->
           c.recent_ring_[(c.recent_head_ + kRecentRingSize - c.recent_count_ + (i - 1))
                            % kRecentRingSize]]]]

\* FaultCollector::ForEachRecent; obs.visited is what fn was called with, in
\* the order of the calls (i of the code is i - 1 here).
ForEachRecentOp(w, max_count) ==
  LET c == w.fc
      count == IF c.recent_count_ < max_count THEN c.recent_count_ ELSE max_count
  IN [w EXCEPT !.obs = [ObsOf("ForEachRecent", 0) EXCEPT
        !.max_count = max_count,
        !.visited = [i \in 1 .. count |->
           c.recent_ring_[(c.recent_head_ + kRecentRingSize - 1 - (i - 1))
                            % kRecentRingSize]]]]

(***************************************************************************)
(* Actions: one per public operation.                                      *)
(***************************************************************************)
Queued(qs, fault_index) ==
  \E l \in Levels : \E k \in 1 .. Len(qs[l]) : qs[l][k].fault_index = fault_index

\* The entries for fault_index among the events a call delivered.
ProcessedIn(events, fault_index) ==
  Cardinality({k \in 1 .. Len(events) : events[k].evt.fault_index = fault_index})

\* The escalated copies a call pushed.
RequeuedIn(events) ==
  Cardinality({k \in 1 .. Len(events) : events[k].requeue = "pushed"})

HistNext(w) ==
  LET h == [hist EXCEPT
              !.processed = [i \in FaultIndexes |-> @[i] + ProcessedIn(w.obs.events, i)],
              !.requeued = @ + RequeuedIn(w.obs.events)]
  IN CASE w.obs.op = "ReportFault" /\ w.obs.err = "kOk" ->
            [h EXCEPT !.admitted[w.obs.index] = @ + 1]
       [] w.obs.op = "ClearFault" /\ w.obs.index < MaxFaults ->
            [h EXCEPT !.admitted[w.obs.index] = 0,
                      !.clean[w.obs.index] = ~Queued(w.fc.queue_set_, w.obs.index),
                      !.processed[w.obs.index] = 0]
       [] w.obs.op = "ClearAllFaults" ->
            [admitted |-> [i \in FaultIndexes |-> 0],
             clean |-> [i \in FaultIndexes |-> ~Queued(w.fc.queue_set_, i)],
             processed |-> [i \in FaultIndexes |-> 0],
             requeued |-> h.requeued]
       [] OTHER -> h

\* The counters at the width env.wrap: the fetch_add counters and the
\* consumer's total wrap modulo env.wrap, the clock readings repeat within
\* 1 .. MaxClock, and the recent ring (written by ProcessEntry, read by
\* ForEachRecent only) is not kept.  Neither the admission nor the drain
\* reads any of them.
Narrow(w) ==
  LET m == w.env.wrap
  IN IF m = 0 THEN w
     ELSE [w EXCEPT
             !.fc.stats_total_reported_ = @ % m,
             !.fc.stats_total_processed_ = @ % m,
             !.fc.stats_total_dropped_ = @ % m,
             !.fc.stats_reported_ = [k \in 0 .. 3 |-> @[k] % m],
             !.fc.stats_dropped_ = [k \in 0 .. 3 |-> @[k] % m],
             !.fc.table_ = [i \in FaultIndexes |->
                              [@[i] EXCEPT !.occurrence_count = @ % m]],
             !.fc.recent_ring_ = [k \in 0 .. (kRecentRingSize - 1) |-> RecentFaultInfo0],
             !.fc.recent_head_ = 0,
             !.fc.recent_count_ = 0,
             !.env.clock = IF @ >= MaxClock THEN 1 ELSE @,
             !.env.consumer.total = @ % m,
             !.obs.count = @ % m]

Apply(w) ==
  \E v \in {w} :
    \E n \in {Narrow(v)} :
      /\ fc' = n.fc
      /\ env' = n.env
      /\ obs' = n.obs
      /\ hist' = IF v.env.wrap = 0 THEN HistNext(v) ELSE hist
      /\ UNCHANGED <<QueueDepth, QueueLevels>>

\* The configuration calls are made before processing starts: before the
\* first report passes validation.
Configuring == env.clock = 0

RegisterFault(fault_index, fault_code, attr, err_threshold) ==
  /\ Configuring
  /\ Apply(RegisterFaultOp(World, fault_index, fault_code, attr, err_threshold))

RegisterHook(fault_index, fn) ==
  /\ Configuring
  /\ Apply(RegisterHookOp(World, fault_index, fn))

SetDefaultHook(fn) ==
  /\ Configuring
  /\ Apply(SetDefaultHookOp(World, fn))

SetOverflowCallback(fn) ==
  /\ Configuring
  /\ Apply(SetOverflowCallbackOp(World, fn))

SetShutdownCallback(fn) ==
  /\ Configuring
  /\ Apply(SetShutdownCallbackOp(World, fn))

SetBusNotifier(fn) ==
  /\ Configuring
  /\ Apply(SetBusNotifierOp(World, fn))

BindFaultHsm(fault_index, threshold) ==
  /\ Configuring
  /\ Apply(BindFaultHsmOp(World, fault_index, threshold))

\* A report that passes validation reads the clock: at most MaxClock do.
ReportFault(fault_index, detail, priority) ==
  /\ (fault_index < MaxFaults /\ fc.table_[fault_index].registered) => env.clock < MaxClock
  /\ Apply(ReportFaultOp(World, fault_index, detail, priority))

ProcessFaults == Apply(ProcessFaultsOp(World))

ClearFault(fault_index) == Apply(ClearFaultOp(World, fault_index))

ClearAllFaults == Apply(ClearAllFaultsOp(World))

ResetStatistics == Apply(ResetStatisticsOp(World))

GetBackpressureLevel == Apply(GetBackpressureLevelOp(World))

ForEachRecent(max_count) == Apply(ForEachRecentOp(World, max_count))

\* ReportFault in a run of up to MaxRecent reports, each carrying as detail
\* its number among the reports admitted so far.
ReportFaultNumbered(fault_index, priority) ==
  /\ env.clock < MaxRecent
  /\ Apply(ReportFaultOp(World, fault_index, fc.stats_total_reported_ + 1, priority))

(***************************************************************************)
(* Spec: the collector, used from one thread (no call overlaps another).   *)
(***************************************************************************)
Init ==
  /\ QueueDepth = 2
  /\ QueueLevels = 4
  /\ fc = FaultCollector0(QueueLevels)
  /\ env = Env0
  /\ obs = Obs0
  /\ hist = Hist0

Next ==
  \/ \E i \in FaultIndexes : RegisterFault(i, 4097 + i, 0, 1)
  \/ \E i \in FaultIndexes, fn \in HookFns : RegisterHook(i, fn)
  \/ SetShutdownCallback(TRUE)
  \/ \E i \in FaultIndexes, p \in FaultPriority : ReportFault(i, 0, p)
  \/ ProcessFaults
  \/ \E i \in FaultIndexes : ClearFault(i)
  \/ ClearAllFaults

Spec == Init /\ [][Next]_vars

(***************************************************************************)
(* SpecClamp: the collector instantiated with fewer than four queue        *)
(* levels, so that the lower priorities share the last level.              *)
(***************************************************************************)
InitClamp ==
  /\ QueueDepth = 2
  /\ QueueLevels \in {1, 2, 3}
  /\ fc = FaultCollector0(QueueLevels)
  /\ env = Env0
  /\ obs = Obs0
  /\ hist = Hist0

NextClamp ==
  \/ \E i \in FaultIndexes : RegisterFault(i, 4097 + i, 0, 1)
  \/ \E i \in FaultIndexes, fn \in {"EscalateHook", "DeferHook"} : RegisterHook(i, fn)
  \/ \E i \in FaultIndexes, d \in {0, 1}, p \in FaultPriority : ReportFault(i, d, p)
  \/ ProcessFaults
  \/ ResetStatistics

SpecClamp == InitClamp /\ [][NextClamp]_vars

(***************************************************************************)
(* SpecQueue: the FaultQueueSet on its own, as the standalone queue tests  *)
(* use it: any mix of Push, PushWithAdmission and Pop of default entries.  *)
(***************************************************************************)
FaultEntry0 == [fault_index |-> 0, priority |-> kMedium, detail |-> 0, timestamp_us |-> 0]

QueueSetPush(level, item) ==
  LET r == QsPush(fc.queue_set_, level, item)
  IN /\ fc' = [fc EXCEPT !.queue_set_ = r.qs]
     /\ obs' = [ObsOf("Push", level) EXCEPT
                  !.ok = r.ok,
                  !.fill = QsSize(fc.queue_set_, level),
                  !.unchanged = (r.qs = fc.queue_set_)]
     /\ UNCHANGED <<QueueDepth, QueueLevels, env, hist>>

QueueSetPushWithAdmission(level, item) ==
  LET r == PushWithAdmission(fc.queue_set_, level, item)
  IN /\ fc' = [fc EXCEPT !.queue_set_ = r.qs]
     /\ obs' = [ObsOf("PushWithAdmission", level) EXCEPT
                  !.ok = r.ok,
                  !.fill = QsSize(fc.queue_set_, level),
                  !.unchanged = (r.qs = fc.queue_set_)]
     /\ UNCHANGED <<QueueDepth, QueueLevels, env, hist>>

QueueSetPop ==
  LET r == QsPop(fc.queue_set_)
  IN /\ fc' = [fc EXCEPT !.queue_set_ = r.qs]
     /\ obs' = [ObsOf("Pop", r.out_level) EXCEPT
                  !.ok = r.ok,
                  !.fill = TotalSize(fc.queue_set_),
                  !.unchanged = (r.qs = fc.queue_set_)]
     /\ UNCHANGED <<QueueDepth, QueueLevels, env, hist>>

InitQueue ==
  /\ QueueDepth \in {1, 2, 4, 8}
  /\ QueueLevels \in {1, 4, 5}
  /\ QueueLevels = 5 => QueueDepth <= 2
  /\ fc = FaultCollector0(QueueLevels)
  /\ env = Env0
  /\ obs = Obs0
  /\ hist = Hist0

NextQueue ==
  \/ \E level \in 0 .. 5 : QueueSetPush(level, FaultEntry0)
  \/ \E level \in 0 .. 5 : QueueSetPushWithAdmission(level, FaultEntry0)
  \/ QueueSetPop

SpecQueue == InitQueue /\ [][NextQueue]_vars

(***************************************************************************)
(* SpecHsm: the collector with bound PerFault HSMs, an overflow callback   *)
(* and queues of depth 1 or 2.                                             *)
(***************************************************************************)
InitHsm ==
  /\ QueueDepth \in {1, 2}
  /\ QueueLevels = 4
  /\ fc = FaultCollector0(QueueLevels)
  /\ env = Env0
  /\ obs = Obs0
  /\ hist = Hist0

NextHsm ==
  \/ \E i \in FaultIndexes, t \in 1 .. MaxThreshold : RegisterFault(i, 4097 + i, 0, t)
  \/ \E i \in FaultIndexes : RegisterHook(i, "DeferHook")
  \/ SetOverflowCallback(TRUE)
  \/ \E i \in 0 .. MaxFaults, t \in 1 .. MaxThreshold : BindFaultHsm(i, t)
  \/ \E i \in FaultIndexes, p \in {kCritical, kLow} : ReportFault(i, 0, p)
  \/ ProcessFaults
  \/ \E i \in FaultIndexes : ClearFault(i)

SpecHsm == InitHsm /\ [][NextHsm]_vars

(***************************************************************************)
(* SpecUnit: a GlobalHsm and a PerFaultHsm on their own, as the standalone *)
(* state machine tests use them: any event dispatched in any state.        *)
(***************************************************************************)
EventIds == {0} \cup (kFaultReported .. kDegradeRecovered) \cup (kDetected .. kClearFault)

GlobalHsmDispatch(event_id) ==
  /\ fc' = [fc EXCEPT !.global_hsm_ = GlobalDispatch(@, event_id)]
  /\ obs' = [ObsOf("GlobalHsm::Dispatch", event_id) EXCEPT !.before = fc.global_hsm_]
  /\ UNCHANGED <<QueueDepth, QueueLevels, env, hist>>

\* global_hsm_.context().critical_count++, as ReportFault does.
GlobalHsmCountCritical ==
  /\ fc.global_hsm_.ctx.critical_count < MaxOccurrence
  /\ fc' = [fc EXCEPT !.global_hsm_.ctx.critical_count = @ + 1]
  /\ obs' = [ObsOf("GlobalHsm::context", 0) EXCEPT !.before = fc.global_hsm_]
  /\ UNCHANGED <<QueueDepth, QueueLevels, env, hist>>

GlobalHsmReset ==
  /\ fc' = [fc EXCEPT !.global_hsm_ = GlobalReset(@)]
  /\ obs' = [ObsOf("GlobalHsm::Reset", 0) EXCEPT !.before = fc.global_hsm_]
  /\ UNCHANGED <<QueueDepth, QueueLevels, env, hist>>

PerFaultHsmBind(fault_index, threshold) ==
  /\ fc' = [fc EXCEPT !.per_fault_hsms_[0] = PerFaultBind(@, fault_index, threshold)]
  /\ obs' = [ObsOf("PerFaultHsm::Bind", fault_index) EXCEPT !.before = fc.per_fault_hsms_[0]]
  /\ UNCHANGED <<QueueDepth, QueueLevels, env, hist>>

PerFaultHsmDispatch(event_id) ==
  /\ event_id = kDetected => fc.per_fault_hsms_[0].ctx.occurrence_count < MaxOccurrence
  /\ fc' = [fc EXCEPT !.per_fault_hsms_[0] = PerFaultDispatch(@, event_id)]
  /\ obs' = [ObsOf("PerFaultHsm::Dispatch", event_id) EXCEPT !.before = fc.per_fault_hsms_[0]]
  /\ UNCHANGED <<QueueDepth, QueueLevels, env, hist>>

PerFaultHsmReset ==
  /\ fc' = [fc EXCEPT !.per_fault_hsms_[0] = PerFaultReset(@)]
  /\ obs' = [ObsOf("PerFaultHsm::Reset", 0) EXCEPT !.before = fc.per_fault_hsms_[0]]
  /\ UNCHANGED <<QueueDepth, QueueLevels, env, hist>>

InitUnit ==
  /\ QueueDepth = 2
  /\ QueueLevels = 4
  /\ fc = FaultCollector0(QueueLevels)
  /\ env = Env0
  /\ obs = Obs0
  /\ hist = Hist0

NextUnit ==
  \/ \E e \in EventIds : GlobalHsmDispatch(e)
  \/ GlobalHsmCountCritical
  \/ GlobalHsmReset
  \/ \E t \in 1 .. MaxThreshold : PerFaultHsmBind(0, t)
  \/ \E e \in EventIds : PerFaultHsmDispatch(e)
  \/ PerFaultHsmReset

SpecUnit == InitUnit /\ [][NextUnit]_vars

(***************************************************************************)
(* SpecConc: a producer thread in ReportFault, a consumer thread in        *)
(* ProcessFaults and a reader thread, each advancing one step at a time.   *)
(* A step is one access to the shared state (a push, the bitmap store, the *)
(* counters, the state machines; a pop with the processing of the popped   *)
(* entry).                                                                 *)
(***************************************************************************)
ApplyAs(w, thread) == Apply([w EXCEPT !.obs.thread = thread])

\* Producer: the call up to PushWithAdmission (returns on an error).
ProducerPush(fault_index, detail, priority) ==
  /\ env.producer.pc = "idle"
  /\ ReportFaultCheck(fc, fault_index) = "kOk" => env.clock < MaxClock
  /\ LET a == ReportFaultPush(World, fault_index, detail, priority)
     IN ApplyAs([a EXCEPT !.env.producer =
                   IF a.obs.err = "none"
                   THEN [pc |-> "pushed", fault_index |-> fault_index, priority |-> priority]
                   ELSE Producer0], "producer")

\* Producer: SetFaultActive.
ProducerSetActive ==
  /\ env.producer.pc = "pushed"
  /\ LET me == env.producer
         w0 == [World EXCEPT !.obs = [ObsOf("ReportFault", me.fault_index)
                                        EXCEPT !.priority = me.priority]]
     IN ApplyAs([ReportFaultSetActive(w0, me.fault_index)
                   EXCEPT !.env.producer.pc = "active"], "producer")

\* Producer: the reported counters.
ProducerCount ==
  /\ env.producer.pc = "active"
  /\ LET me == env.producer
         w0 == [World EXCEPT !.obs = [ObsOf("ReportFault", me.fault_index)
                                        EXCEPT !.priority = me.priority]]
     IN ApplyAs([ReportFaultCount(w0, LevelOf(me.priority))
                   EXCEPT !.env.producer.pc = "counted"], "producer")

\* Producer: the state machines, and the return of kOk.
ProducerNotify ==
  /\ env.producer.pc = "counted"
  /\ LET me == env.producer
         w0 == [World EXCEPT !.obs = [ObsOf("ReportFault", me.fault_index)
                                        EXCEPT !.priority = me.priority]]
     IN ApplyAs([ReportFaultNotify(w0, me.fault_index, me.priority)
                   EXCEPT !.env.producer = Producer0], "producer")

\* Consumer: the entry of ProcessFaults.
ConsumerBegin ==
  /\ env.consumer.pc = "idle"
  /\ LET w0 == [World EXCEPT !.obs = ObsOf("ProcessFaults", 0)]
     IN IF fc.shutdown_requested_
        THEN ApplyAs(w0, "consumer")
        ELSE ApplyAs([w0 EXCEPT !.obs.op = "ProcessFaults.begin",
                                !.env.consumer = [pc |-> "draining", total |-> 0]],
                     "consumer")

\* Consumer: one turn of the loop (Pop, ProcessEntry, ++total), or the
\* return of total when Pop fails.
ConsumerStep ==
  /\ env.consumer.pc = "draining"
  /\ \E p \in {QsPop(fc.queue_set_)} :
       \E w0 \in {[World EXCEPT !.obs = ObsOf("ProcessFaults.loop", 0)]} :
         IF ~p.ok
         THEN ApplyAs([w0 EXCEPT !.obs.op = "ProcessFaults",
                                 !.obs.count = env.consumer.total,
                                 !.env.consumer = Consumer0], "consumer")
         ELSE \E w1 \in {[w0 EXCEPT !.fc.queue_set_ = p.qs]} :
                ApplyAs([ProcessEntry(w1, p.item)
                           EXCEPT !.env.consumer.total = @ + 1], "consumer")

\* Reader: ActiveFaultCount().
ReaderActiveFaultCount ==
  /\ env.reader.pc \in {"idle", "read"}
  /\ ApplyAs([World EXCEPT
                !.obs = [ObsOf("ActiveFaultCount", 0) EXCEPT !.count = ActiveFaultCount(fc)],
                !.env.reader = [pc |-> "counted", active_count |-> ActiveFaultCount(fc),
                                total_reported |-> 0]], "reader")

\* Reader: GetStatistics(), after ActiveFaultCount().
ReaderGetStatistics ==
  /\ env.reader.pc = "counted"
  /\ ApplyAs([World EXCEPT
                !.obs = [ObsOf("GetStatistics", 0) EXCEPT !.count = fc.stats_total_reported_],
                !.env.reader.pc = "read",
                !.env.reader.total_reported = fc.stats_total_reported_], "reader")

InitConc ==
  /\ QueueDepth = 2
  /\ QueueLevels = 4
  /\ fc = FaultCollector0(QueueLevels)
  /\ env = Env0
  /\ obs = Obs0
  /\ hist = Hist0

NextConc ==
  \/ RegisterFault(0, 4097, 0, 1)
  \/ \E fn \in {"HandledHook", "EscalateHook"} : RegisterHook(0, fn)
  \/ \E p \in {kCritical, kMedium} : ProducerPush(0, 0, p)
  \/ ProducerSetActive
  \/ ProducerCount
  \/ ProducerNotify
  \/ ConsumerBegin
  \/ ConsumerStep
  \/ ReaderActiveFaultCount
  \/ ReaderGetStatistics

SpecConc == InitConc /\ [][NextConc]_vars

(***************************************************************************)
(* SpecHooks: per-index hooks, the default hook and the bus notifier, set  *)
(* or not, in every combination.                                           *)
(***************************************************************************)
InitHooks ==
  /\ QueueDepth = 2
  /\ QueueLevels = 4
  /\ fc = FaultCollector0(QueueLevels)
  /\ env = Env0
  /\ obs = Obs0
  /\ hist = Hist0

NextHooks ==
  \/ \E i \in FaultIndexes : RegisterFault(i, 4097 + i, 0, 1)
  \/ \E i \in FaultIndexes, fn \in {"HandledHook", "DeferHook"} : RegisterHook(i, fn)
  \/ \E fn \in {"HandledHook", "DeferHook", "ShutdownHook"} : SetDefaultHook(fn)
  \/ SetBusNotifier(TRUE)
  \/ SetShutdownCallback(TRUE)
  \/ \E i \in FaultIndexes, p \in {kCritical, kMedium} : ReportFault(i, 0, p)
  \/ ProcessFaults

SpecHooks == InitHooks /\ [][NextHooks]_vars

(***************************************************************************)
(* SpecLive: a producer that never has to stop and a consumer that keeps   *)
(* calling ProcessFaults, with hooks that return Handled or Defer.  The    *)
(* counters wrap at CounterMod, which keeps the state space finite under   *)
(* an endless stream of reports.  The consumer thread is scheduled again   *)
(* and again (weak fairness of its two steps); nothing obliges the         *)
(* producer to report.                                                     *)
(***************************************************************************)
InitLive ==
  /\ QueueDepth = 2
  /\ QueueLevels = 4
  /\ fc = FaultCollector0(QueueLevels)
  /\ env = [Env0 EXCEPT !.wrap = CounterMod]
  /\ obs = Obs0
  /\ hist = Hist0

NextLive ==
  \/ \E i \in FaultIndexes : RegisterFault(i, 4097 + i, 0, 1)
  \/ \E i \in FaultIndexes, fn \in {"HandledHook", "DeferHook"} : RegisterHook(i, fn)
  \/ ProducerPush(0, 0, kCritical)
  \/ ProducerPush(1, 0, kLow)
  \/ ProducerSetActive
  \/ ProducerCount
  \/ ProducerNotify
  \/ ConsumerBegin
  \/ ConsumerStep

SpecLive ==
  InitLive /\ [][NextLive]_vars /\ WF_vars(ConsumerBegin) /\ WF_vars(ConsumerStep)

(***************************************************************************)
(* SpecConfig: registration and reporting with indexes in and out of       *)
(* range, registered or not, followed by every other operation.            *)
(***************************************************************************)
InitConfig ==
  /\ QueueDepth = 2
  /\ QueueLevels = 4
  /\ fc = FaultCollector0(QueueLevels)
  /\ env = Env0
  /\ obs = Obs0
  /\ hist = Hist0

NextConfig ==
  \/ \E i \in 0 .. MaxFaults, t \in 1 .. MaxThreshold : RegisterFault(i, 4096 + t, t - 1, t)
  \/ \E i \in 0 .. MaxFaults : RegisterHook(i, "HandledHook")
  \/ SetOverflowCallback(TRUE)
  \/ \E i \in 0 .. MaxFaults, p \in {kCritical, kMedium} : ReportFault(i, 0, p)
  \/ ProcessFaults
  \/ \E i \in 0 .. MaxFaults : ClearFault(i)
  \/ ClearAllFaults
  \/ ResetStatistics

SpecConfig == InitConfig /\ [][NextConfig]_vars

(***************************************************************************)
(* SpecRecent: one level of depth 32 and one fault index, in a run long    *)
(* enough to fill the level and to wrap the recent ring.                   *)
(***************************************************************************)
InitRecent ==
  /\ QueueDepth = 32
  /\ QueueLevels = 1
  /\ fc = FaultCollector0(QueueLevels)
  /\ env = Env0
  /\ obs = Obs0
  /\ hist = Hist0

NextRecent ==
  \/ RegisterFault(0, 4097, 0, 1)
  \/ RegisterHook(0, "DeferHook")
  \/ ReportFaultNumbered(0, kMedium)
  \/ ProcessFaults
  \/ GetBackpressureLevel
  \/ \E max_count \in {0, 3, kRecentRingSize, kRecentRingSize + 4} : ForEachRecent(max_count)

SpecRecent == InitRecent /\ [][NextRecent]_vars

(***************************************************************************)
(* Claims                                                                  *)
(***************************************************************************)
Events == 1 .. Len(obs.events)

\* The action source of index i returns Handled for every event.
AlwaysHandled(i) ==
  \/ fc.table_[i].hook_fn = "HandledHook"
  \/ /\ fc.table_[i].hook_fn = "nullptr"
     /\ fc.default_hook_fn_ \in {"nullptr", "HandledHook"}

\* C1: after a ProcessFaults call that drained the queues, no registered
\* index whose hook returns Handled for every event is active.
C1_HandledClearsFault ==
  (obs.op = "ProcessFaults" /\ QsIsEmpty(fc.queue_set_)) =>
    \A i \in FaultIndexes :
      (fc.table_[i].registered /\ AlwaysHandled(i)) => ~IsFaultActive(fc, i)

C1_Witness ==
  /\ obs.op = "ProcessFaults"
  /\ QsIsEmpty(fc.queue_set_)
  /\ \E i \in FaultIndexes :
       /\ fc.table_[i].registered
       /\ AlwaysHandled(i)
       /\ hist.admitted[i] = 2
       /\ \E k \in Events :
            /\ obs.events[k].evt.fault_index = i
            /\ obs.events[k].active_before
            /\ ~obs.events[k].active_after
            /\ ~IsFaultActive(fc, i)

\* C2: in every drain the hooks are invoked in pop order, every pop takes
\* the entry from the lowest-numbered non-empty level, and two entries
\* popped from the same level come out in the order they were enqueued.
C2_DeliveryOrder ==
  obs.op = "ProcessFaults" =>
    /\ Len(obs.events) = Len(obs.pops)
    /\ \A k \in 1 .. Len(obs.pops) :
         /\ obs.pops[k].level \in obs.pops[k].nonempty
         /\ \A l \in obs.pops[k].nonempty : obs.pops[k].level <= l
         /\ obs.events[k].evt.timestamp_us = obs.pops[k].timestamp_us
    /\ \A j, k \in 1 .. Len(obs.pops) :
         (j < k /\ obs.pops[j].level = obs.pops[k].level)
           => obs.pops[j].timestamp_us < obs.pops[k].timestamp_us

\* A lower-priority entry reported first is delivered second.
C2_Witness ==
  /\ obs.op = "ProcessFaults"
  /\ Len(obs.pops) = 2
  /\ obs.pops[1].level < obs.pops[2].level
  /\ obs.pops[1].timestamp_us > obs.pops[2].timestamp_us

\* Two entries queued together at one level are delivered first in, first out.
C2_WitnessFifo ==
  /\ obs.op = "ProcessFaults"
  /\ Len(obs.pops) = 2
  /\ obs.pops[1].level = obs.pops[2].level
  /\ obs.pops[2].level \in obs.pops[1].nonempty
  /\ obs.events[1].evt.timestamp_us < obs.events[2].evt.timestamp_us

\* The admission table of the specification, by level and fill.
AdmissionTable(level, fill) ==
  CASE level = 0 -> TRUE
    [] level = 1 -> fill < (QueueDepth * 99) \div 100
    [] level = 2 -> fill < (QueueDepth * 80) \div 100
    [] OTHER -> fill < (QueueDepth * 60) \div 100

\* C3: PushWithAdmission succeeds exactly when the level exists, its ring
\* is not full and the admission table admits its fill; a failed call
\* leaves the queue set unchanged and a successful one adds one entry.
C3_AdmissionTable ==
  obs.op = "PushWithAdmission" =>
    /\ obs.ok <=> /\ obs.index < QueueLevels
                  /\ obs.fill < QueueDepth
                  /\ AdmissionTable(obs.index, obs.fill)
    /\ ~obs.ok => obs.unchanged
    /\ obs.ok => QsSize(fc.queue_set_, obs.index) = obs.fill + 1

\* With QueueDepth 8 a Low entry is rejected once 4 entries sit at level 3.
C3_Witness ==
  /\ QueueDepth = 8
  /\ obs.op = "PushWithAdmission"
  /\ obs.index = 3
  /\ obs.fill = 4
  /\ ~obs.ok
  /\ obs.unchanged

\* With QueueDepth 8 and 4 entries at level 3 a Critical entry is admitted.
C3_WitnessCritical ==
  /\ QueueDepth = 8
  /\ obs.op = "PushWithAdmission"
  /\ obs.index = 0
  /\ obs.ok
  /\ QsSize(fc.queue_set_, 3) = 4

C5_DeferCountsOccurrences ==
  \A i \in FaultIndexes :
    ( /\ fc.table_[i].registered
      /\ fc.table_[i].hook_fn = "DeferHook"
      /\ hist.clean[i]
      /\ hist.admitted[i] > 0
      /\ ~Queued(fc.queue_set_, i) )
    => /\ fc.table_[i].occurrence_count = hist.admitted[i]
       /\ IsFaultActive(fc, i)
       /\ \A k \in Events :
            ( /\ obs.events[k].evt.fault_index = i
              /\ \A j \in Events : j > k => obs.events[j].evt.fault_index # i )
            => obs.events[k].evt.occurrence_count = hist.admitted[i]

C5_Witness ==
  \E i \in FaultIndexes :
    /\ fc.table_[i].hook_fn = "DeferHook"
    /\ hist.clean[i]
    /\ hist.admitted[i] = 2
    /\ ~Queued(fc.queue_set_, i)
    /\ obs.op = "ProcessFaults"
    /\ Len(obs.events) = 2
    /\ obs.events[2].evt.fault_index = i
    /\ obs.events[2].evt.occurrence_count = 2
    /\ IsFaultActive(fc, i)

C7_ShutdownHaltsDrain ==
  \A k \in Events : ~obs.events[k].shutdown_before

\* C8: when a hook returns Escalate for a Medium entry, the ProcessFaults
\* call returns with the escalated copy queued at level 1 (High), the copy
\* not having been processed by that call.
C8_EscalationDeferred ==
  obs.op = "ProcessFaults" =>
    \A k \in Events :
      (obs.events[k].action = "kEscalate" /\ obs.events[k].evt.priority = kMedium)
      => /\ \E n \in 1 .. Len(fc.queue_set_[kHigh]) :
              /\ fc.queue_set_[kHigh][n].fault_index = obs.events[k].evt.fault_index
              /\ fc.queue_set_[kHigh][n].priority = kHigh
         /\ \A j \in Events :
              j > k => ~(/\ obs.events[j].evt.fault_index = obs.events[k].evt.fault_index
                         /\ obs.events[j].evt.priority = kHigh)

\* C9: an Escalate action on a Critical entry re-enqueues nothing, leaves
\* the queue sizes, total_dropped and the active bit as they were, and the
\* entry counts as processed, in total_processed and in the return value.
C9_EscalateAtCritical ==
  /\ obs.op = "ProcessFaults" => obs.count = Len(obs.events)
  /\ \A k \in Events :
       (obs.events[k].action = "kEscalate" /\ obs.events[k].evt.priority = kCritical)
       => /\ obs.events[k].requeue = "none"
          /\ obs.events[k].size_after = obs.events[k].size_before
          /\ obs.events[k].dropped_after = obs.events[k].dropped_before
          /\ obs.events[k].active_after = obs.events[k].active_before
          /\ obs.events[k].processed_after = obs.events[k].processed_before + 1

C9_Witness ==
  \E k \in Events :
    /\ obs.events[k].action = "kEscalate"
    /\ obs.events[k].evt.priority = kCritical
    /\ obs.events[k].active_before
    /\ obs.events[k].active_after
    /\ obs.count = Len(obs.events)

\* C10: after ClearAllFaults no fault is active and the Global HSM is Idle.
C10_ClearAllIdle ==
  obs.op = "ClearAllFaults" =>
    /\ ActiveFaultCount(fc) = 0
    /\ fc.global_hsm_.state = "Idle"

\* C11: an admitted Critical report leaves the Global HSM in Degraded when
\* it was Idle, Active or Degraded before the report; a Critical report
\* rejected with QueueFull leaves the Global HSM as it was.
C11_CriticalDrivesDegraded ==
  [][(obs'.op = "ReportFault" /\ obs'.priority = kCritical) =>
       /\ (obs'.err = "kOk" /\ fc.global_hsm_.state \in {"Idle", "Active", "Degraded"})
            => fc'.global_hsm_.state = "Degraded"
       /\ obs'.err = "kQueueFull" => fc'.global_hsm_ = fc.global_hsm_]_vars

\* A Critical report admitted after a Low one (the Global HSM was Active).
C11_Witness ==
  /\ obs.op = "ReportFault"
  /\ obs.priority = kCritical
  /\ obs.err = "kOk"
  /\ fc.stats_reported_[kLow] = 1
  /\ fc.stats_total_processed_ = 0
  /\ fc.global_hsm_.state = "Degraded"

\* A Critical report rejected because level 0 is full.
C11_WitnessRejected ==
  /\ obs.op = "ReportFault"
  /\ obs.priority = kCritical
  /\ obs.err = "kQueueFull"
  /\ fc.global_hsm_.state = "Degraded"

\* C12: whenever a Handled action of ProcessFaults or a ClearFault call
\* leaves no fault active, the Global HSM is Idle afterwards.
C12_AllClearedIdle ==
  /\ \A k \in Events :
       (obs.events[k].action = "kHandled" /\ obs.events[k].count_after = 0)
         => obs.events[k].global_after = "Idle"
  /\ (obs.op = "ClearFault" /\ ActiveFaultCount(fc) = 0) => fc.global_hsm_.state = "Idle"

\* The transition relation of the Global HSM as the specification lists it.
GlobalTransitions ==
  { <<"Idle", kFaultReported, "Active">>,
    <<"Active", kAllCleared, "Idle">>,
    <<"Active", kCriticalDetected, "Degraded">>,
    <<"Active", kShutdownReq, "Shutdown">>,
    <<"Degraded", kShutdownReq, "Shutdown">>,
    <<"Degraded", kDegradeRecovered, "Active">> }

GlobalExpected(g, event_id) ==
  IF \E t \in GlobalTransitions : t[1] = g.state /\ t[2] = event_id
  THEN LET t == CHOOSE t \in GlobalTransitions : t[1] = g.state /\ t[2] = event_id
       IN [state |-> t[3],
           ctx |-> CASE event_id = kAllCleared ->
                          [g.ctx EXCEPT !.active_count = 0, !.critical_count = 0]
                     [] event_id = kShutdownReq -> [g.ctx EXCEPT !.shutdown_requested = TRUE]
                     [] OTHER -> g.ctx]
  ELSE g

\* C13: the Global HSM starts in Idle and every dispatch follows the
\* specified transition relation; any other (state, event) pair changes
\* neither state nor context, so Shutdown is terminal.
C13_GlobalTransitions ==
  /\ obs.op = "construct" => fc.global_hsm_ = [state |-> "Idle", ctx |-> GlobalHsmContext0]
  /\ obs.op = "GlobalHsm::Dispatch" =>
       /\ fc.global_hsm_ = GlobalExpected(obs.before, obs.index)
       /\ obs.before.state = "Shutdown" => fc.global_hsm_ = obs.before

\* AllCleared in Active with a non-zero critical count: Idle, counts zeroed.
C13_Witness ==
  /\ obs.op = "GlobalHsm::Dispatch"
  /\ obs.index = kAllCleared
  /\ obs.before.state = "Active"
  /\ obs.before.ctx.critical_count = 2
  /\ fc.global_hsm_.state = "Idle"
  /\ fc.global_hsm_.ctx.critical_count = 0

\* An event dispatched in Shutdown is ignored.
C13_WitnessTerminal ==
  /\ obs.op = "GlobalHsm::Dispatch"
  /\ obs.index = kFaultReported
  /\ obs.before.state = "Shutdown"
  /\ fc.global_hsm_.state = "Shutdown"
  /\ fc.global_hsm_.ctx.shutdown_requested

\* The transition relation of the PerFault HSM as the specification lists it.
PerFaultExpected(h, event_id) ==
  LET n == h.ctx.occurrence_count
      to(st, count) == [state |-> st, ctx |-> [h.ctx EXCEPT !.occurrence_count = count]]
  IN CASE h.state = "Dormant" /\ event_id = kDetected -> to("Detected", 1)
       [] h.state = "Detected" /\ event_id = kDetected -> to("Detected", n + 1)
       [] h.state = "Detected" /\ event_id = kConfirmed /\ n >= h.ctx.err_threshold ->
            to("Active", n)
       [] h.state = "Detected" /\ event_id = kClearFault -> to("Cleared", n)
       [] h.state = "Active" /\ event_id = kRecoveryStart -> to("Recovering", n)
       [] h.state = "Active" /\ event_id = kClearFault -> to("Cleared", n)
       [] h.state = "Recovering" /\ event_id = kRecoveryDone -> to("Cleared", n)
       [] h.state = "Cleared" /\ event_id = kClearFault -> to("Dormant", 0)
       [] OTHER -> h

\* C14: the PerFault HSM starts in Dormant and every dispatch follows the
\* specified transition relation, Confirmed being taken only when the count
\* has reached the threshold; any other (state, event) pair is a no-op.
C14_PerFaultTransitions ==
  /\ obs.op \in {"construct", "PerFaultHsm::Bind"} => fc.per_fault_hsms_[0].state = "Dormant"
  /\ obs.op = "PerFaultHsm::Dispatch" =>
       fc.per_fault_hsms_[0] = PerFaultExpected(obs.before, obs.index)

\* Confirmed below the threshold is a no-op.
C14_Witness ==
  /\ obs.op = "PerFaultHsm::Dispatch"
  /\ obs.index = kConfirmed
  /\ obs.before.state = "Detected"
  /\ obs.before.ctx.occurrence_count = 1
  /\ obs.before.ctx.err_threshold = 2
  /\ fc.per_fault_hsms_[0] = obs.before

\* Confirmed at the threshold is taken.
C14_WitnessConfirmed ==
  /\ obs.op = "PerFaultHsm::Dispatch"
  /\ obs.index = kConfirmed
  /\ obs.before.ctx.occurrence_count = 2
  /\ obs.before.ctx.err_threshold = 2
  /\ fc.per_fault_hsms_[0].state = "Active"

\* The slot bound to the index and the threshold it was bound with.
BoundSlot(i) == FindSlot(fc, i, 0)

BoundThreshold(i) == fc.per_fault_hsms_[BoundSlot(i)].ctx.err_threshold

\* Index i is registered with the Defer hook, bound to a PerFault HSM, and
\* every entry processed for it since it was last cleared is counted.
DeferBound(i) ==
  /\ fc.table_[i].registered
  /\ fc.table_[i].hook_fn = "DeferHook"
  /\ BoundSlot(i) < MaxPerFaultHsm
  /\ hist.clean[i]
  /\ fc.per_fault_hsms_[BoundSlot(i)].state # "Cleared"

\* C15: for an index bound with threshold T whose hook returns Defer, the
\* bound PerFault HSM is Active exactly when at least T entries for the
\* index have been processed, after every call and after every entry of a
\* drain.
C15_ConfirmAtThreshold ==
  \A i \in FaultIndexes :
    DeferBound(i) =>
      /\ (fc.per_fault_hsms_[BoundSlot(i)].state = "Active")
           <=> (fc.table_[i].occurrence_count >= BoundThreshold(i))
      /\ obs.op = "ProcessFaults" =>
           \A k \in Events :
             obs.events[k].evt.fault_index = i =>
               ((obs.events[k].hsm_after = "Active")
                  <=> (obs.events[k].evt.occurrence_count >= BoundThreshold(i)))

\* C16: a ClearFault call made while the PerFault HSM bound to the index
\* is Active leaves that HSM in Dormant.
C16_ClearReachesDormant ==
  [][(obs'.op = "ClearFault" /\ BoundHsmState(fc, obs'.index) = "Active")
       => BoundHsmState(fc', obs'.index) = "Dormant"]_vars

\* What the idempotence of ClearFault compares: the active bitmap, the
\* occurrence counts, the Global HSM state, and the state and count of
\* every bound PerFault HSM.
ClearView(c) ==
  [active |-> c.active_bitmap_,
   counts |-> [i \in FaultIndexes |-> c.table_[i].occurrence_count],
   global |-> c.global_hsm_.state,
   hsms |-> [s \in HsmSlots |->
               IF s < c.per_fault_hsm_count_
               THEN <<c.per_fault_hsms_[s].state, c.per_fault_hsms_[s].ctx.occurrence_count>>
               ELSE <<"unbound", 0>>]]

\* C17: a ClearFault(i) call made right after a ClearFault(i) call changes
\* nothing of that view.
C17_ClearIdempotent ==
  [][(obs.op = "ClearFault" /\ obs'.op = "ClearFault" /\ obs'.index = obs.index)
       => ClearView(fc') = ClearView(fc)]_vars

\* C18: no two bound slots hold the same fault index, at most
\* MaxPerFaultHsm slots are bound, a BindFaultHsm call made with all slots
\* bound returns HsmSlotFull and one with an index >= MaxFaults returns
\* InvalidIndex, both changing nothing.
C18_BindUnique ==
  [][/\ \A s, t \in HsmSlots :
          (s < t /\ t < fc'.per_fault_hsm_count_)
            => fc'.per_fault_hsm_map_[s] # fc'.per_fault_hsm_map_[t]
     /\ fc'.per_fault_hsm_count_ <= MaxPerFaultHsm
     /\ obs'.op = "BindFaultHsm" =>
          /\ obs'.index >= MaxFaults => (obs'.err = "kInvalidIndex" /\ fc' = fc)
          /\ (obs'.index < MaxFaults /\ fc.per_fault_hsm_count_ >= MaxPerFaultHsm)
               => (obs'.err = "kHsmSlotFull" /\ fc' = fc)]_vars

\* C19: an admitted ReportFault(i, d, p) appends to one level an entry
\* carrying i, d and p, and a ProcessFaults call hands every queued entry
\* to the hook as an event with the entry's index, detail and priority and
\* the fault code registered for the index, whatever the number of levels.
C19_RoundTrip ==
  [][/\ (obs'.op = "ReportFault" /\ obs'.err = "kOk") =>
          \E l \in Levels :
            /\ Len(fc'.queue_set_[l]) = Len(fc.queue_set_[l]) + 1
            /\ LET e == fc'.queue_set_[l][Len(fc'.queue_set_[l])]
               IN /\ e.fault_index = obs'.index
                  /\ e.detail = obs'.detail
                  /\ e.priority = obs'.priority
     /\ (obs'.op = "ProcessFaults" /\ ~fc.shutdown_requested_) =>
          \A l \in Levels : \A n \in 1 .. Len(fc.queue_set_[l]) :
            LET e == fc.queue_set_[l][n]
            IN \E k \in 1 .. Len(obs'.events) :
                 /\ obs'.events[k].evt.timestamp_us = e.timestamp_us
                 /\ obs'.events[k].evt.fault_index = e.fault_index
                 /\ obs'.events[k].evt.detail = e.detail
                 /\ obs'.events[k].evt.priority = e.priority
                 /\ obs'.events[k].evt.fault_code = fc.table_[e.fault_index].fault_code]_vars

\* A Low report with detail 1, clamped to a lower level, was delivered with
\* priority Low, detail 1 and the registered code.
C19_Witness ==
  /\ QueueLevels < 4
  /\ obs.op = "ProcessFaults"
  /\ \E k \in Events :
       /\ obs.events[k].evt.priority = kLow
       /\ obs.events[k].evt.detail = 1
       /\ obs.events[k].evt.fault_index = 1
       /\ obs.events[k].evt.fault_code = 4098
       /\ obs.pops[k].level = QueueLevels - 1

\* C20: ReportFault for a registered index returns QueueFull exactly when the
\* level's ring is full or the admission table rejects its fill; the call
\* then adds 1 to total_dropped and to the dropped counter of the priority,
\* invokes the overflow callback once if one is set, and leaves the queues,
\* the active bitmap, the reported counters and the HSMs unchanged.
C20_RejectedReport ==
  [][obs'.op = "ReportFault" =>
       LET fill == Len(fc.queue_set_[obs'.priority])
           rejected == ~(fill < QueueDepth /\ AdmissionTable(obs'.priority, fill))
       IN /\ (obs'.index < MaxFaults /\ fc.table_[obs'.index].registered)
               => (obs'.err = "kQueueFull" <=> rejected)
          /\ obs'.err = "kQueueFull" =>
               /\ fc'.stats_total_dropped_ = fc.stats_total_dropped_ + 1
               /\ fc'.stats_dropped_ =
                    [fc.stats_dropped_ EXCEPT ![obs'.priority] = @ + 1]
               /\ obs'.overflow_calls = (IF fc.overflow_fn_ THEN 1 ELSE 0)
               /\ fc'.queue_set_ = fc.queue_set_
               /\ fc'.active_bitmap_ = fc.active_bitmap_
               /\ fc'.stats_total_reported_ = fc.stats_total_reported_
               /\ fc'.stats_reported_ = fc.stats_reported_
               /\ fc'.global_hsm_ = fc.global_hsm_
               /\ fc'.per_fault_hsms_ = fc.per_fault_hsms_]_vars

\* A Low report rejected by admission control with the callback set.
C20_Witness ==
  /\ obs.op = "ReportFault"
  /\ obs.err = "kQueueFull"
  /\ obs.priority = kLow
  /\ Len(fc.queue_set_[kLow]) < QueueDepth
  /\ obs.overflow_calls = 1
  /\ fc.stats_dropped_[kLow] = 1

\* A Critical report rejected by a full ring, with no callback set.
C20_WitnessFull ==
  /\ obs.op = "ReportFault"
  /\ obs.err = "kQueueFull"
  /\ obs.priority = kCritical
  /\ Len(fc.queue_set_[kCritical]) = QueueDepth
  /\ ~fc.overflow_fn_
  /\ obs.overflow_calls = 0

\* C21: ReportFault with an index >= MaxFaults returns InvalidIndex and with
\* an unregistered index NotRegistered; both leave the collector and the
\* clock as they were and invoke no callback; no queue ever holds an entry
\* of an unregistered index.
C21_ReportRejectsInvalid ==
  [][/\ obs'.op = "ReportFault" =>
          /\ obs'.index >= MaxFaults =>
               (obs'.err = "kInvalidIndex" /\ fc' = fc /\ env' = env
                  /\ obs'.overflow_calls = 0)
          /\ (obs'.index < MaxFaults /\ ~fc.table_[obs'.index].registered) =>
               (obs'.err = "kNotRegistered" /\ fc' = fc /\ env' = env
                  /\ obs'.overflow_calls = 0)
     /\ \A l \in Levels : \A n \in 1 .. Len(fc'.queue_set_[l]) :
          /\ fc'.queue_set_[l][n].fault_index < MaxFaults
          /\ fc'.table_[fc'.queue_set_[l][n].fault_index].registered]_vars

\* An unregistered index was reported while another index has an entry
\* queued and the overflow callback is set.
C21_Witness ==
  /\ obs.op = "ReportFault"
  /\ obs.err = "kNotRegistered"
  /\ ~fc.table_[obs.index].registered
  /\ fc.overflow_fn_
  /\ TotalSize(fc.queue_set_) = 1
  /\ ActiveFaultCount(fc) = 1

\* An index out of range was reported.
C21_WitnessInvalid ==
  /\ obs.op = "ReportFault"
  /\ obs.err = "kInvalidIndex"
  /\ obs.index = MaxFaults
  /\ TotalSize(fc.queue_set_) = 1

\* C22: RegisterFault returns InvalidIndex for an index >= MaxFaults and
\* AlreadyRegistered for a registered index, leaving every descriptor
\* unchanged; otherwise it stores the fields and sets registered; no
\* operation takes a registered flag back to false.
C22_RegisterOnce ==
  [][/\ obs'.op = "RegisterFault" =>
          /\ obs'.index >= MaxFaults => (obs'.err = "kInvalidIndex" /\ fc' = fc)
          /\ (obs'.index < MaxFaults /\ fc.table_[obs'.index].registered) =>
               (obs'.err = "kAlreadyRegistered" /\ fc' = fc)
          /\ (obs'.index < MaxFaults /\ ~fc.table_[obs'.index].registered) =>
               /\ obs'.err = "kOk"
               /\ fc'.table_[obs'.index].registered
               /\ fc'.table_[obs'.index].fault_code \in 4097 .. (4096 + MaxThreshold)
               /\ fc'.table_[obs'.index].attr = fc'.table_[obs'.index].fault_code - 4097
               /\ fc'.table_[obs'.index].err_threshold = fc'.table_[obs'.index].attr + 1
               /\ \A j \in FaultIndexes \ {obs'.index} : fc'.table_[j] = fc.table_[j]
     /\ \A i \in FaultIndexes : fc.table_[i].registered => fc'.table_[i].registered]_vars

\* A second registration of an index, with other fields, was refused.
C22_Witness ==
  /\ obs.op = "RegisterFault"
  /\ obs.err = "kAlreadyRegistered"
  /\ fc.table_[obs.index].registered
  /\ fc.table_[obs.index].hook_fn = "HandledHook"
  /\ fc.table_[obs.index].err_threshold = 2

Min(a, b) == IF a < b THEN a ELSE b

\* C23: after k entries have been processed, ForEachRecent(fn, max) visits
\* exactly min(k, 16, max) entries: the most recently processed ones, newest
\* first.  In SpecRecent the m-th processed entry carries detail m (first
\* conjunct), so the j-th visited entry must carry detail k - j + 1.
C23_RecentNewestFirst ==
  /\ obs.op = "ProcessFaults" =>
       \A m \in Events : obs.events[m].evt.detail = obs.events[m].processed_after
  /\ obs.op = "ForEachRecent" =>
       LET k == fc.stats_total_processed_
           n == Min(Min(k, kRecentRingSize), obs.max_count)
       IN /\ Len(obs.visited) = n
          /\ \A j \in 1 .. n :
               /\ obs.visited[j].detail = k - j + 1
               /\ obs.visited[j].fault_index = 0
               /\ obs.visited[j].priority = kMedium

\* More than 16 entries were processed and the whole ring was asked for.
C23_Witness ==
  /\ obs.op = "ForEachRecent"
  /\ fc.stats_total_processed_ = kRecentRingSize + 2
  /\ obs.max_count = kRecentRingSize + 4
  /\ Len(obs.visited) = kRecentRingSize
  /\ obs.visited[1].detail = kRecentRingSize + 2
  /\ obs.visited[kRecentRingSize].detail = 3

\* Fewer entries were asked for than the ring holds.
C23_WitnessMax ==
  /\ obs.op = "ForEachRecent"
  /\ fc.stats_total_processed_ = 5
  /\ obs.max_count = 3
  /\ Len(obs.visited) = 3

\* C25: GetBackpressureLevel returns, for pct = floor(100 * TotalSize /
\* (QueueDepth * QueueLevels)): Normal below 60, Warning from 60 below 80,
\* Critical from 80 below 95, Full from 95; Normal on a fresh collector.
C25_BackpressureBands ==
  obs.op = "GetBackpressureLevel" =>
    LET pct == (100 * TotalSize(fc.queue_set_)) \div (QueueDepth * QueueLevels)
    IN /\ pct < 60 => obs.err = "kNormal"
       /\ (60 <= pct /\ pct < 80) => obs.err = "kWarning"
       /\ (80 <= pct /\ pct < 95) => obs.err = "kCritical"
       /\ pct >= 95 => obs.err = "kFull"
       /\ fc = FaultCollector0(QueueLevels) => obs.err = "kNormal"

\* The level was read at 30 of 32 slots (93 percent).
C25_Witness ==
  /\ obs.op = "GetBackpressureLevel"
  /\ TotalSize(fc.queue_set_) = 30
  /\ obs.err = "kCritical"

C25_WitnessFull ==
  /\ obs.op = "GetBackpressureLevel"
  /\ TotalSize(fc.queue_set_) = 31
  /\ obs.err = "kFull"

C25_WitnessWarning ==
  /\ obs.op = "GetBackpressureLevel"
  /\ TotalSize(fc.queue_set_) = 20
  /\ obs.err = "kWarning"

C25_WitnessFresh ==
  /\ obs.op = "GetBackpressureLevel"
  /\ fc = FaultCollector0(QueueLevels)
  /\ obs.err = "kNormal"

PushedAt(l) ==
  \E n \in 1 .. Len(fc'.queue_set_[l]) :
    \A m \in 1 .. Len(fc.queue_set_[l]) : fc.queue_set_[l][m] # fc'.queue_set_[l][n]

PoppedAt(l) ==
  \E m \in 1 .. Len(fc.queue_set_[l]) :
    \A n \in 1 .. Len(fc'.queue_set_[l]) : fc.queue_set_[l][m] # fc'.queue_set_[l][n]

\* C26: with one thread in ReportFault and one in ProcessFaults, every
\* level's ring is pushed to by the producer thread only and popped from by
\* the consumer thread only, whatever the hooks return.
C26_SingleProducerConsumer ==
  [][\A l \in Levels :
       /\ PushedAt(l) => obs'.thread = "producer"
       /\ PoppedAt(l) => obs'.thread = "consumer"]_vars

\* C27: once both threads are quiescent and every admitted report of an
\* index whose hook always returns Handled has been processed, the index
\* is not active.
C27_ActiveBitQuiescent ==
  \A i \in FaultIndexes :
    (/\ AlwaysHandled(i)
     /\ env.producer.pc = "idle"
     /\ env.consumer.pc = "idle"
     /\ ~Queued(fc.queue_set_, i))
      => ~IsFaultActive(fc, i)

\* C28: a reader that saw ActiveFaultCount() > 0 and reads the statistics
\* afterwards finds total_reported >= 1.
C28_ActiveImpliesCounted ==
  (env.reader.pc = "read" /\ env.reader.active_count > 0)
    => env.reader.total_reported >= 1

\* C29: when a hook returns Escalate for an entry of priority p other than
\* Critical, a copy with the same fault index and detail and priority p - 1
\* is pushed at level p - 1 with no admission test: it is appended whenever
\* that level exists and its ring has room.  Otherwise the push fails,
\* nothing is enqueued and total_dropped is incremented; total_dropped is
\* incremented in no other case.  The active bit is left as it was.
C29_EscalateRequeues ==
  \A k \in Events :
    LET e == obs.events[k]
        p == e.evt.priority
        roomy == /\ p - 1 < QueueLevels
                 /\ Len(e.queue_before[p - 1]) < QueueDepth
    IN (e.action = "kEscalate" /\ p # kCritical) =>
         /\ roomy =>
              /\ e.requeue = "pushed"
              /\ Len(e.queue_after[p - 1]) = Len(e.queue_before[p - 1]) + 1
              /\ SubSeq(e.queue_after[p - 1], 1, Len(e.queue_before[p - 1]))
                   = e.queue_before[p - 1]
              /\ LET copy == e.queue_after[p - 1][Len(e.queue_after[p - 1])]
                 IN /\ copy.fault_index = e.evt.fault_index
                    /\ copy.detail = e.evt.detail
                    /\ copy.priority = p - 1
              /\ \A l \in Levels \ {p - 1} : e.queue_after[l] = e.queue_before[l]
              /\ e.dropped_after = e.dropped_before
         /\ ~roomy =>
              /\ e.requeue = "failed"
              /\ e.queue_after = e.queue_before
              /\ e.dropped_after = e.dropped_before + 1
         /\ e.active_after = e.active_before

\* With three levels, a Low entry (which sat at level 2) was escalated and
\* its copy pushed at level 2, the fault staying active.
C29_Witness ==
  /\ QueueLevels = 3
  /\ \E k \in Events :
       /\ obs.events[k].action = "kEscalate"
       /\ obs.events[k].evt.priority = kLow
       /\ obs.events[k].evt.detail = 1
       /\ obs.events[k].requeue = "pushed"
       /\ obs.events[k].active_after
       /\ Len(obs.events[k].queue_after[2]) = Len(obs.events[k].queue_before[2]) + 1

\* With two levels, the copy of a Low entry has no level 2 to go to.
C29_WitnessFailed ==
  /\ QueueLevels = 2
  /\ \E k \in Events :
       /\ obs.events[k].action = "kEscalate"
       /\ obs.events[k].evt.priority = kLow
       /\ obs.events[k].requeue = "failed"
       /\ obs.events[k].dropped_after = obs.events[k].dropped_before + 1

\* C30: a ProcessFaults call entered without a concurrent producer (and
\* without a shutdown request) returns, and adds to total_processed, the
\* number of entries that were queued when it was entered.
C30_DrainLengthIsOccupancy ==
  [][(obs'.op = "ProcessFaults" /\ ~fc.shutdown_requested_) =>
       /\ obs'.count = TotalSize(fc.queue_set_)
       /\ fc'.stats_total_processed_ - fc.stats_total_processed_
            = TotalSize(fc.queue_set_)]_vars

\* The events after the k-th of the last call that are for the same index.
LaterSameIndex(k) ==
  Cardinality({j \in Events : j > k /\ obs.events[j].evt.fault_index
                                       = obs.events[k].evt.fault_index})

\* C31: the occurrence_count of every delivered FaultEvent is the number of
\* entries for its index processed since the index was last cleared (or
\* since construction), is_first is true exactly when that number is 1, and
\* the descriptor's counter is that number in every state: Handled does not
\* reset it, ClearFault and ClearAllFaults set it to 0.
C31_OccurrenceCount ==
  /\ \A i \in FaultIndexes : fc.table_[i].occurrence_count = hist.processed[i]
  /\ \A k \in Events :
       LET e == obs.events[k].evt
           n == hist.processed[e.fault_index] - LaterSameIndex(k)
       IN /\ e.occurrence_count = n
          /\ e.is_first <=> (n = 1)

\* Two entries of one index were processed by one call, the first of them
\* with a Handled action.
C31_Witness ==
  /\ obs.op = "ProcessFaults"
  /\ Len(obs.events) = 2
  /\ obs.events[1].evt.fault_index = obs.events[2].evt.fault_index
  /\ obs.events[1].action = "kHandled"
  /\ obs.events[1].evt.is_first
  /\ obs.events[2].evt.occurrence_count = 2
  /\ ~obs.events[2].evt.is_first

\* An entry processed after a ClearFault of an index that had been processed
\* before is a first occurrence again.
C31_WitnessCleared ==
  /\ obs.op = "ProcessFaults"
  /\ Len(obs.events) = 1
  /\ obs.events[1].evt.fault_index = 0
  /\ ~fc.table_[1].registered
  /\ obs.events[1].evt.is_first
  /\ obs.events[1].processed_before = 1
  /\ fc.stats_total_processed_ = 2

\* How many of the callbacks invoked for the k-th event are named name.
CallsOf(k, name) ==
  Cardinality({n \in 1 .. Len(obs.events[k].calls) : obs.events[k].calls[n] = name})

\* C32: every processed entry takes its action from exactly one source: the
\* hook of its index if one is registered, else the default hook if set,
\* else the action is Handled; the default hook is not invoked for an index
\* with its own hook; the bus notifier, if set, is invoked exactly once per
\* entry, before the hook.
C32_OneActionSource ==
  \A k \in Events :
    LET e == obs.events[k]
        hook_fn == fc.table_[e.evt.fault_index].hook_fn
        default_fn == fc.default_hook_fn_
    IN /\ CallsOf(k, "hook_fn") + CallsOf(k, "default_hook_fn") <= 1
       /\ hook_fn # "nullptr" =>
            /\ CallsOf(k, "hook_fn") = 1
            /\ CallsOf(k, "default_hook_fn") = 0
            /\ e.action = HookReturn(hook_fn, 0)
       /\ (hook_fn = "nullptr" /\ default_fn # "nullptr") =>
            /\ CallsOf(k, "default_hook_fn") = 1
            /\ e.action = HookReturn(default_fn, 0)
       /\ (hook_fn = "nullptr" /\ default_fn = "nullptr") =>
            /\ CallsOf(k, "hook_fn") + CallsOf(k, "default_hook_fn") = 0
            /\ e.action = "kHandled"
       /\ fc.bus_notify_fn_ =>
            /\ CallsOf(k, "bus_notify_fn") = 1
            /\ e.calls[1] = "bus_notify_fn"
       /\ ~fc.bus_notify_fn_ => CallsOf(k, "bus_notify_fn") = 0

\* One drain delivered an entry of an index with its own hook and an entry
\* of an index without one, with a different default hook and the notifier
\* set.
C32_Witness ==
  /\ obs.op = "ProcessFaults"
  /\ fc.bus_notify_fn_
  /\ fc.default_hook_fn_ = "DeferHook"
  /\ \E k, j \in Events :
       /\ obs.events[k].calls = <<"bus_notify_fn", "hook_fn">>
       /\ obs.events[k].action = "kHandled"
       /\ obs.events[j].calls = <<"bus_notify_fn", "default_hook_fn">>
       /\ obs.events[j].action = "kDefer"

\* No hook at all: the entry is handled and no callback runs.
C32_WitnessNone ==
  /\ obs.op = "ProcessFaults"
  /\ \E k \in Events : obs.events[k].calls = <<>> /\ obs.events[k].action = "kHandled"

\* C33: an admitted report of priority p is enqueued at level
\* min(p, QueueLevels - 1) and counted in priority_reported[p]; a rejected
\* one is counted in priority_dropped[p]; no other per-priority counter
\* moves.
C33_StatsByPriority ==
  [][(obs'.op = "ReportFault" /\ obs'.err \in {"kOk", "kQueueFull"}) =>
       LET p == obs'.priority
           level == IF p < QueueLevels - 1 THEN p ELSE QueueLevels - 1
       IN /\ obs'.err = "kOk" =>
               /\ Len(fc'.queue_set_[level]) = Len(fc.queue_set_[level]) + 1
               /\ fc'.stats_reported_ = [fc.stats_reported_ EXCEPT ![p] = @ + 1]
               /\ fc'.stats_dropped_ = fc.stats_dropped_
          /\ obs'.err = "kQueueFull" =>
               /\ fc'.queue_set_ = fc.queue_set_
               /\ fc'.stats_dropped_ = [fc.stats_dropped_ EXCEPT ![p] = @ + 1]
               /\ fc'.stats_reported_ = fc.stats_reported_]_vars

\* C34: no operation of the collector dispatches DegradeRecovered: a step
\* taken with the Global HSM in Degraded leaves it in Degraded or takes it
\* to Shutdown, and Shutdown is not left, so a Global HSM that has been
\* Degraded is never Active or Idle again.
C34_DegradedNeverRecovers ==
  [][/\ fc.global_hsm_.state = "Degraded" =>
          fc'.global_hsm_.state \in {"Degraded", "Shutdown"}
     /\ fc.global_hsm_.state = "Shutdown" => fc'.global_hsm_.state = "Shutdown"]_vars

\* Everything was cleared with the Global HSM in Degraded, and it stayed
\* there.
C34_Witness ==
  /\ obs.op = "ClearAllFaults"
  /\ fc.global_hsm_.state = "Degraded"
  /\ ActiveFaultCount(fc) = 0
  /\ fc.stats_total_processed_ > 0

\* A Shutdown action took the Global HSM from Degraded to Shutdown.
C34_WitnessShutdown ==
  /\ obs.op = "ProcessFaults"
  /\ \E k \in Events :
       /\ k > 1
       /\ obs.events[k - 1].global_after = "Degraded"
       /\ obs.events[k].action = "kShutdown"
       /\ obs.events[k].global_after = "Shutdown"

\* The queued entries of index i that have priority p.
QueuedAt(qs, i, p) ==
  Cardinality({ln \in Levels \X (1 .. QueueDepth) :
                 /\ ln[2] <= Len(qs[ln[1]])
                 /\ qs[ln[1]][ln[2]].fault_index = i
                 /\ qs[ln[1]][ln[2]].priority = p})

\* The most hook invocations the queued entries of index i can cause: p + 1
\* for an entry of priority p.
ChainBound(qs, i) ==
  QueuedAt(qs, i, kCritical) + 2 * QueuedAt(qs, i, kHigh)
    + 3 * QueuedAt(qs, i, kMedium) + 4 * QueuedAt(qs, i, kLow)

\* C35: a ProcessFaults call entered without a shutdown request returns
\* with every level empty, whatever the hooks return, and an entry of
\* priority p that was queued at entry causes at most p + 1 deliveries.
C35_DrainTerminates ==
  [][(obs'.op = "ProcessFaults" /\ ~fc.shutdown_requested_) =>
       /\ QsIsEmpty(fc'.queue_set_)
       /\ \A i \in FaultIndexes :
            ProcessedIn(obs'.events, i) <= ChainBound(fc.queue_set_, i)
       /\ obs'.count = Len(obs'.events)]_vars

\* A Medium entry of an index whose hook always escalates was delivered
\* three times by one call, which left the queues empty.
C35_Witness ==
  /\ obs.op = "ProcessFaults"
  /\ obs.count = 3
  /\ obs.events[1].evt.priority = kMedium
  /\ \A k \in Events :
       /\ obs.events[k].action = "kEscalate"
       /\ obs.events[k].evt.fault_index = obs.events[1].evt.fault_index
  /\ fc.table_[obs.events[1].evt.fault_index].hook_fn = "EscalateHook"
  /\ QsIsEmpty(fc.queue_set_)

\* The timestamps of the queued entries, and of the processed entries the
\* recent ring still holds.
QueuedStamps ==
  {fc.queue_set_[ln[1]][ln[2]].timestamp_us :
     ln \in {x \in Levels \X (1 .. QueueDepth) : x[2] <= Len(fc.queue_set_[x[1]])}}

RecentSlots == 0 .. (fc.recent_count_ - 1)

\* C36: between operations, total_reported plus the escalated copies pushed
\* equals total_processed plus TotalSize(); when no copy was ever pushed,
\* total_processed <= total_reported and every processed entry was
\* processed once and is no longer queued.
C36_EntryConservation ==
  /\ fc.stats_total_reported_ + hist.requeued
       = fc.stats_total_processed_ + TotalSize(fc.queue_set_)
  /\ hist.requeued = 0 => fc.stats_total_processed_ <= fc.stats_total_reported_
  /\ fc.stats_total_processed_ < kRecentRingSize =>
       /\ fc.recent_count_ = fc.stats_total_processed_
       /\ \A a, b \in RecentSlots :
            a # b => fc.recent_ring_[a].timestamp_us # fc.recent_ring_[b].timestamp_us
       /\ \A a \in RecentSlots : fc.recent_ring_[a].timestamp_us \notin QueuedStamps

\* One report was processed and another is still queued, no copy pushed.
C36_Witness ==
  /\ hist.requeued = 0
  /\ fc.stats_total_reported_ = 2
  /\ fc.stats_total_processed_ = 1
  /\ TotalSize(fc.queue_set_) = 1

\* Copies were pushed: more entries processed than reported.
C36_WitnessRequeued ==
  /\ hist.requeued = 2
  /\ fc.stats_total_reported_ = 1
  /\ fc.stats_total_processed_ = 3
  /\ TotalSize(fc.queue_set_) = 0

\* C37: between operations, a Global HSM in Idle goes with no active fault
\* and a Global HSM in Active with at least one.
C37_GlobalMatchesBitmap ==
  /\ fc.global_hsm_.state = "Idle" => ActiveFaultCount(fc) = 0
  /\ fc.global_hsm_.state = "Active" => ActiveFaultCount(fc) > 0

\* A report was processed with a Defer hook: the fault is still active and
\* the Global HSM still Active.
C37_Witness ==
  /\ obs.op = "ProcessFaults"
  /\ Len(obs.events) = 1
  /\ obs.events[1].action = "kDefer"
  /\ fc.global_hsm_.state = "Active"
  /\ ActiveFaultCount(fc) = 1

\* The last active fault was cleared by ClearFault: back to Idle.
C37_WitnessIdle ==
  /\ obs.op = "ClearFault"
  /\ fc.global_hsm_.state = "Idle"
  /\ fc.stats_total_reported_ = 2
  /\ ActiveFaultCount(fc) = 0

\* C38: IsShutdownRequested() is true exactly when the Global HSM is in
\* Shutdown, and then the HSM context's shutdown_requested is true.
C38_ShutdownAgrees ==
  /\ fc.shutdown_requested_ <=> fc.global_hsm_.state = "Shutdown"
  /\ fc.shutdown_requested_ => fc.global_hsm_.ctx.shutdown_requested


\* C39: right after an admitted ReportFault(i) for an index with a bound
\* PerFault HSM, that HSM is in Detected or Active.
C39_ReportTracked ==
  [][(obs'.op = "ReportFault" /\ obs'.err = "kOk"
        /\ BoundHsmState(fc, obs'.index) # "none")
       => BoundHsmState(fc', obs'.index) \in {"Detected", "Active"}]_vars


\* The entries a producer of SpecLive can queue.
LiveEntries ==
  {NewFaultEntry(0, 0, kCritical, t) : t \in 1 .. MaxClock}
    \cup {NewFaultEntry(1, 0, kLow, t) : t \in 1 .. MaxClock}

QueuedCount(c, e) ==
  Cardinality({ln \in {x \in Levels \X (1 .. QueueDepth) : x[2] <= Len(c.queue_set_[x[1]])} :
                 c.queue_set_[ln[1]][ln[2]] = e})

QueuedEntry(e) == QueuedCount(fc, e) > 0

\* The step just taken popped e and processed it, invoking the hook of its
\* index exactly once.
DeliveredEntry(e) ==
  /\ obs.op = "ProcessFaults.loop"
  /\ Len(obs.events) = 1
  /\ obs.events[1].evt.fault_index = e.fault_index
  /\ obs.events[1].evt.priority = e.priority
  /\ obs.events[1].evt.detail = e.detail
  /\ obs.events[1].evt.timestamp_us = e.timestamp_us
  /\ fc.table_[e.fault_index].hook_fn # "nullptr" => CallsOf(1, "hook_fn") = 1
  /\ CallsOf(1, "hook_fn") <= 1

\* The step just taken was an admitted ReportFault's push of e.
AdmittedEntry(e) ==
  /\ obs.op = "ReportFault"
  /\ obs.thread = "producer"
  /\ obs.err = "none"
  /\ env.producer.pc = "pushed"
  /\ e = NewFaultEntry(obs.index, obs.detail, obs.priority, e.timestamp_us)

\* No loss, no duplication, nothing delivered that was not admitted: the
\* queued copies of an entry change by one at a time, grow only by an
\* admitted report of that entry and shrink only by its delivery; every
\* admitted report queues its entry and every delivery removes its entry.
DeliveryConserves ==
  \A e \in LiveEntries :
    LET d == QueuedCount(fc', e) - QueuedCount(fc, e)
    IN /\ d \in {-1, 0, 1}
       /\ d = 1 => AdmittedEntry(e)' /\ e.timestamp_us = SteadyNowUs(World)
       /\ d = -1 => DeliveredEntry(e)'
       /\ (AdmittedEntry(e)' /\ e.timestamp_us = SteadyNowUs(World)) => d = 1
       /\ (DeliveredEntry(e)' /\ obs'.thread = "consumer" /\ env.consumer.pc = "draining")
            => d = -1

\* The producer is inside a report at a level above (before) level l.
ReportingAbove(l) ==
  env.producer.pc # "idle" /\ LevelOf(env.producer.priority) < l

\* C40: with a producer and a weakly fair consumer and hooks that return
\* Handled or Defer, no entry is lost, duplicated or delivered without
\* having been admitted, and every admitted entry is eventually popped and
\* has its hook invoked.
C40_EventualDelivery ==
  /\ [][DeliveryConserves]_vars
  /\ \A e \in LiveEntries : QueuedEntry(e) ~> DeliveredEntry(e)

\* C40 as amended: the same, where an entry is eventually delivered unless
\* the producer keeps reporting at levels of higher priority for ever.
C40_DeliveryUnlessStarved ==
  /\ [][DeliveryConserves]_vars
  /\ \A e \in LiveEntries :
       (<>[]~ReportingAbove(LevelOf(e.priority))) => (QueuedEntry(e) ~> DeliveredEntry(e))

\* A low-priority entry was delivered to its registered hook while the
\* producer was inside a later report.
C40_Witness ==
  /\ \E e \in LiveEntries : e.priority = kLow /\ DeliveredEntry(e)
  /\ fc.table_[obs.events[1].evt.fault_index].hook_fn # "nullptr"
  /\ env.producer.pc # "idle"

=============================================================================
